---- MODULE Spec2Model ----
(***************************************************************************)
(* CountIn: per-frame detections -> tracks (PersonTracker) -> line / area  *)
(* crossings (LineManager) -> counts and crossing events (CountInApp).     *)
(*                                                                         *)
(* Conventions                                                             *)
(*  - a bbox is <<x, y, w, h>>; the input boxes have even w and h, so the  *)
(*    centroid x + w/2, y + h/2 is an integer;                             *)
(*  - an IoU is the exact fraction <<intersection, union>>; comparisons    *)
(*    are done by cross multiplication;                                    *)
(*  - scores are in tenths (0.4 is 4);                                     *)
(*  - JS array index i is sequence index i + 1;                            *)
(*  - Date.now() is the variable now, in milliseconds;                     *)
(*  - canvas and video have the same size (scaleX = scaleY = 1).           *)
(***************************************************************************)
EXTENDS Integers, Sequences, FiniteSets, TLC

VARIABLES
    \* PersonTracker
    tracks,         \* this.tracks: track id -> [id, bbox, lastSeen, history]
    disappeared,    \* this.disappeared: track id -> consecutive misses
    nextTrackId,    \* this.nextTrackId
    isModelLoaded,  \* this.isModelLoaded
    config,         \* this.confidenceThreshold and the two limits
    \* LineManager
    lines,          \* this.lines: sequence of boundary objects
    nextLineId,     \* this.nextLineId
    lineCrossings,  \* this.lineCrossings: boundary id -> [in, out]
    crossedTracks,  \* this.crossedTracks: key -> [timestamp, direction]
    \* CountInApp
    counts,         \* this.counts
    hasSession,     \* this.currentSession is set
    mode,         \* this.mode
    isRunning,      \* this.isRunning
    animationId,    \* this.animationId (0 is null)
    frameCount,     \* this.frameCount
    starting,       \* startCounting calls suspended at an await
    detecting,      \* processFrame passes suspended at the detector call
    rafPending,     \* handles of pending requestAnimationFrame callbacks
    nextRafId,      \* next handle requestAnimationFrame returns
    useSynthetic,   \* window.useSyntheticDetections
    \* environment and outputs
    now,            \* Date.now()
    accepted,       \* <<track id, boundary id>> -> the last crossing event
                    \* handed to onLineCrossed for the pair (observation only)
    lastOp          \* the operation that produced this state and its result

trackerVars == <<tracks, disappeared, nextTrackId, isModelLoaded, config>>
lineVars == <<lines, nextLineId, lineCrossings, crossedTracks>>
appVars == <<counts, hasSession, mode, isRunning, animationId, frameCount,
             starting, detecting, rafPending, nextRafId, useSynthetic>>
vars == <<trackerVars, lineVars, appVars, now, accepted, lastOp>>

----------------------------------------------------------------------------
(* Bounds of the model *)

MaxTrackId == 3      \* track ids issued in one behaviour
MaxWatched == 1      \* the same, where boundaries are drawn
MaxTicks == 2        \* clock ticks in one behaviour
MaxEvents == 3       \* the application's total of crossings
MaxLineId == 2       \* boundary ids issued in one behaviour
MaxLines == 1        \* boundaries in the registry at once
ManyLineId == 10     \* the same two, where boundary ids reach two digits
ManyLines == 2
MaxRafId == 6        \* requestAnimationFrame handles in one behaviour
MaxStarts == 2       \* startCounting calls suspended at once

(* Configuration of the tracker, constructor options *)
confidenceThreshold == 4
maxDisappearedFrames == 1
historyLength == 2

(* Program constants *)
minIoU == <<3, 10>>
CooldownMs == 2000
\* the step of the clock: two steps make a cooldown window
TickMs == CooldownMs \div 2

----------------------------------------------------------------------------
(* Helpers on sequences and sets *)

Max(a, b) == IF a > b THEN a ELSE b
Min(a, b) == IF a < b THEN a ELSE b
Abs(a) == IF a < 0 THEN 0 - a ELSE a

RECURSIVE SortedIds(_)
\* Object.keys / Object.values / for-in of an object with integer keys:
\* ascending numeric order
SortedIds(S) ==
    IF S = {} THEN <<>>
    ELSE LET m == CHOOSE x \in S : \A y \in S : x <= y
         IN <<m>> \o SortedIds(S \ {m})

Range(s) == {s[i] : i \in 1..Len(s)}

----------------------------------------------------------------------------
(* PersonTracker *)

Centroid(bbox) == <<bbox[1] + bbox[3] \div 2, bbox[2] + bbox[4] \div 2>>

HistoryEntry(detection, t) ==
    [timestamp |-> t, bbox |-> detection.bbox,
     centroid |-> Centroid(detection.bbox), score |-> detection.score]

initializeTrack(trackId, detection, t) ==
    [id |-> trackId, bbox |-> detection.bbox, lastSeen |-> t,
     history |-> <<HistoryEntry(detection, t)>>]

\* the limit taken at the wrong end, pop() for shift(): the newest sample
\* is dropped instead of the oldest
LimitHistoryNewest(history) ==
    IF Len(history) > historyLength
    THEN SubSeq(history, 1, Len(history) - 1) ELSE history

\* "Limit history length": shift() once when the push went over the limit
LimitHistory(history) ==
    IF Len(history) > historyLength THEN Tail(history) ELSE history

updateTrack(track, detection, t) ==
    [track EXCEPT !.lastSeen = t,
                  !.bbox = detection.bbox,
                  !.history = LimitHistory(Append(track.history,
                                                  HistoryEntry(detection, t)))]

calculateIoU(bbox1, bbox2) ==
    LET b1x2 == bbox1[1] + bbox1[3]
        b1y2 == bbox1[2] + bbox1[4]
        b2x2 == bbox2[1] + bbox2[3]
        b2y2 == bbox2[2] + bbox2[4]
        xOverlap == Max(0, Min(b1x2, b2x2) - Max(bbox1[1], bbox2[1]))
        yOverlap == Max(0, Min(b1y2, b2y2) - Max(bbox1[2], bbox2[2]))
        intersectionArea == xOverlap * yOverlap
        box1Area == (b1x2 - bbox1[1]) * (b1y2 - bbox1[2])
        box2Area == (b2x2 - bbox2[1]) * (b2y2 - bbox2[2])
        unionArea == box1Area + box2Area - intersectionArea
    IN IF unionArea > 0 THEN <<intersectionArea, unionArea>> ELSE <<0, 1>>

\* ">=" for ">" in the inner loop: on equal IoU the later detection wins
FracGtOrEqual(a, b) == a[1] * b[2] >= b[1] * a[2]

\* a > b and a >= b on fractions with positive denominators
FracGt(a, b) == a[1] * b[2] > b[1] * a[2]
FracGe(a, b) == a[1] * b[2] >= b[1] * a[2]

\* one row per live track in key order, one column per detection
calculateIoUMatrix(trks, detections) ==
    LET ids == SortedIds(DOMAIN trks)
    IN [i \in 1..Len(ids) |->
          [j \in 1..Len(detections) |->
              calculateIoU(trks[ids[i]].bbox, detections[j].bbox)]]

\* the test left out: a detection stays available after a track took it
NotMatchedAny(matchedDetections, j) == TRUE

\* !matchedDetections.has(j)
NotMatched(matchedDetections, j) == j \notin matchedDetections

RECURSIVE BestDetection(_, _, _, _, _)
\* the inner loop of matchDetectionsToTracks: <<maxIoU, maxIdx>> after
\* columns j..Len(trackIoUs), maxIdx 0 when none was taken
BestDetection(trackIoUs, matchedDetections, j, maxIoU, maxIdx) ==
    IF j > Len(trackIoUs) THEN <<maxIoU, maxIdx>>
    ELSE IF NotMatched(matchedDetections, j) /\ FracGt(trackIoUs[j], maxIoU)
         THEN BestDetection(trackIoUs, matchedDetections, j + 1,
                            trackIoUs[j], j)
         ELSE BestDetection(trackIoUs, matchedDetections, j + 1,
                            maxIoU, maxIdx)

RECURSIVE MatchLoop(_, _, _, _, _)
\* the outer loop of matchDetectionsToTracks over the rows i..
MatchLoop(iouMatrix, trackIds, i, matched, matchedDetections) ==
    IF i > Len(iouMatrix)
    THEN [matched |-> matched, matchedDetections |-> matchedDetections]
    ELSE LET best == BestDetection(iouMatrix[i], matchedDetections, 1,
                                   <<-1, 1>>, 0)
         IN IF FracGe(best[1], minIoU)
            THEN MatchLoop(iouMatrix, trackIds, i + 1,
                           Append(matched, [trackId |-> trackIds[i],
                                            detectionIdx |-> best[2]]),
                           matchedDetections \cup {best[2]})
            ELSE MatchLoop(iouMatrix, trackIds, i + 1, matched,
                           matchedDetections)

matchDetectionsToTracks(iouMatrix, trks, detections) ==
    LET all == SortedIds(1..Len(detections))
    IN IF Len(iouMatrix) = 0
       THEN [matched |-> <<>>, unmatched |-> all]
       ELSE LET r == MatchLoop(iouMatrix, SortedIds(DOMAIN trks), 1,
                               <<>>, {})
            IN [matched |-> r.matched,
                unmatched |-> SelectSeq(all,
                                LAMBDA d : d \notin r.matchedDetections)]

\* this.disappeared[trackId] || 0
Missed(disp, trackId) == IF trackId \in DOMAIN disp THEN disp[trackId] ELSE 0

\* the test one frame late
ExpiredLate(misses) == misses > maxDisappearedFrames + 1

\* the test of handleDisappearances that ends a track
Expired(misses) == misses > maxDisappearedFrames

\* without the increment: a track that misses a frame keeps its count
handleDisappearancesNoCount(trks, disp, currentTracks) ==
    LET missing == DOMAIN trks \ DOMAIN currentTracks
        disp1 == [id \in DOMAIN disp \cup missing |->
                    IF id \in DOMAIN disp THEN disp[id] ELSE 0]
        gone == {id \in missing : Expired(disp1[id])}
        kept == DOMAIN currentTracks \cup (missing \ gone)
    IN [tracks |-> [id \in kept |-> IF id \in DOMAIN currentTracks
                                    THEN currentTracks[id] ELSE trks[id]],
        disappeared |-> [id \in DOMAIN disp1 \ gone |-> disp1[id]],
        gone |-> SortedIds(gone)]

\* without "keep track with latest known position": a track that misses a
\* frame is not carried over
handleDisappearancesForgets(trks, disp, currentTracks) ==
    LET missing == DOMAIN trks \ DOMAIN currentTracks
        disp1 == [id \in DOMAIN disp \cup missing |->
                    IF id \in missing THEN Missed(disp, id) + 1 ELSE disp[id]]
        gone == {id \in missing : Expired(disp1[id])}
    IN [tracks |-> currentTracks,
        disappeared |-> [id \in DOMAIN disp1 \ gone |-> disp1[id]],
        gone |-> SortedIds(gone)]

handleDisappearances(trks, disp, currentTracks) ==
    LET missing == DOMAIN trks \ DOMAIN currentTracks
        disp1 == [id \in DOMAIN disp \cup missing |->
                    IF id \in missing THEN Missed(disp, id) + 1 ELSE disp[id]]
        gone == {id \in missing : Expired(disp1[id])}
        kept == DOMAIN currentTracks \cup (missing \ gone)
    IN [tracks |-> [id \in kept |-> IF id \in DOMAIN currentTracks
                                    THEN currentTracks[id] ELSE trks[id]],
        disappeared |-> [id \in DOMAIN disp1 \ gone |-> disp1[id]],
        gone |-> SortedIds(gone)]

----------------------------------------------------------------------------
(* LineManager.  The state it works on is passed as a record lm with the  *)
(* fields lines, lineCrossings, crossedTracks and, for the listener the    *)
(* application installs as onLineCrossed, counts, events (the events of    *)
(* this pass, in order) and accepted.                                      *)
(* A boundary is [id, type, name, orientation, start, end, points,         *)
(* peopleInside]; points is <<>> unless the area is a polygon, and         *)
(* peopleInside is {} and unused for a line.  A point is <<x, y>>.         *)
(* The random color and the intersection point of an event are left out:   *)
(* they are only drawn or stored.                                          *)

Chr == <<"0", "1", "2", "3", "4", "5", "6", "7", "8", "9">>

RECURSIVE Digits(_)
\* the decimal text of a non-negative integer, one character per element
Digits(n) ==
    IF n < 10 THEN <<Chr[n + 1]>>
    ELSE Digits(n \div 10) \o <<Chr[(n % 10) + 1]>>

\* `${person.id}-${line.id}`
CrossingKey(personId, lineId) == Digits(personId) \o <<"-">> \o Digits(lineId)

\* `-${lineId}`
KeySuffix(lineId) == <<"-">> \o Digits(lineId)

\* String.prototype.includes
Includes(text, pat) ==
    \E i \in 0..(Len(text) - Len(pat)) :
        SubSeq(text, i + 1, i + Len(pat)) = pat

\* the infinite lines through the two segments meet
lineIntersectionUnbounded(p1, p2, p3, p4) ==
    (p4[2] - p3[2]) * (p2[1] - p1[1]) # (p4[1] - p3[1]) * (p2[2] - p1[2])

\* lineIntersection: TRUE when it returns a point, FALSE when null.
\* On integers |denominator| < 0.0001 is denominator = 0; ua and ub are
\* compared with 0 and 1 without dividing.
lineIntersection(p1, p2, p3, p4) ==
    LET denominator == (p4[2] - p3[2]) * (p2[1] - p1[1])
                       - (p4[1] - p3[1]) * (p2[2] - p1[2])
        uaNum == (p4[1] - p3[1]) * (p1[2] - p3[2])
                 - (p4[2] - p3[2]) * (p1[1] - p3[1])
        ubNum == (p2[1] - p1[1]) * (p1[2] - p3[2])
                 - (p2[2] - p1[2]) * (p1[1] - p3[1])
        Outside(num) == \/ num * denominator < 0
                        \/ Abs(num) > Abs(denominator)
    IN IF denominator = 0 THEN FALSE
       ELSE ~(Outside(uaNum) \/ Outside(ubNum))

getSide(px, py, x1, y1, x2, y2) == (x2 - x1) * (py - y1) - (y2 - y1) * (px - x1)

\* a horizontal line read the other way round than a vertical one
determineLineCrossingDirectionByAxis(p1, p2, lineStart, lineEnd) ==
    LET prevSide == getSide(p1[1], p1[2], lineStart[1], lineStart[2],
                            lineEnd[1], lineEnd[2])
        currSide == getSide(p2[1], p2[2], lineStart[1], lineStart[2],
                            lineEnd[1], lineEnd[2])
        isVertical == Abs(lineEnd[1] - lineStart[1]) < Abs(lineEnd[2] - lineStart[2])
    IN IF isVertical
       THEN (IF prevSide <= 0 /\ currSide > 0 THEN "in" ELSE "out")
       ELSE (IF prevSide >= 0 /\ currSide < 0 THEN "in" ELSE "out")

determineLineCrossingDirection(p1, p2, lineStart, lineEnd) ==
    LET prevSide == getSide(p1[1], p1[2], lineStart[1], lineStart[2],
                            lineEnd[1], lineEnd[2])
        currSide == getSide(p2[1], p2[2], lineStart[1], lineStart[2],
                            lineEnd[1], lineEnd[2])
        isVertical == Abs(lineEnd[1] - lineStart[1]) < Abs(lineEnd[2] - lineStart[2])
    IN IF isVertical
       THEN (IF prevSide <= 0 /\ currSide > 0 THEN "in" ELSE "out")
       ELSE (IF prevSide <= 0 /\ currSide > 0 THEN "in" ELSE "out")

\* one edge test of isPointInPolygon, from vertex pj to vertex pi:
\* x < (xj - xi) * (y - yi) / (yj - yi) + xi, multiplied out by yj - yi
EdgeCrossed(point, pi, pj) ==
    /\ (pi[2] > point[2]) # (pj[2] > point[2])
    /\ LET d == pj[2] - pi[2]
           n == (pj[1] - pi[1]) * (point[2] - pi[2])
       IN IF d > 0 THEN (point[1] - pi[1]) * d < n
                   ELSE (point[1] - pi[1]) * d > n

isPointInPolygon(point, polygon) ==
    LET n == Len(polygon)
        prev(i) == IF i = 1 THEN n ELSE i - 1
        crossed == {i \in 1..n : EdgeCrossed(point, polygon[i], polygon[prev(i)])}
    IN Cardinality(crossed) % 2 = 1

\* the containment test of checkAreaCrossing
AreaContains(area, pos) ==
    IF area.points # <<>>
    THEN isPointInPolygon(pos, area.points)
    ELSE LET areaX == Min(area.start[1], area.end[1])
             areaY == Min(area.start[2], area.end[2])
             areaWidth == Abs(area.end[1] - area.start[1])
             areaHeight == Abs(area.end[2] - area.start[2])
         IN /\ pos[1] >= areaX /\ pos[1] <= areaX + areaWidth
            /\ pos[2] >= areaY /\ pos[2] <= areaY + areaHeight

CrossingEvent(line, personId, direction, t) ==
    [lineId |-> line.id, lineName |-> line.name, personId |-> personId,
     direction |-> direction, timestamp |-> t]

SetKey(f, key, value) ==
    [k \in DOMAIN f \cup {key} |-> IF k = key THEN value ELSE f[k]]

\* the application's onLineCrossed listener: totals and the event itself
onLineCrossed(lm, event) ==
    LET c1 == [lm.counts EXCEPT ![event.direction] = @ + 1]
    IN [lm EXCEPT !.counts = [c1 EXCEPT !.total = c1.in + c1.out],
                  !.events = Append(@, event),
                  !.accepted = SetKey(@, <<event.personId, event.lineId>>,
                                      event)]

\* counting occupancy: an 'out' takes one off 'in'
CountCrossingNet(crossings, id, direction) ==
    LET base == IF id \in DOMAIN crossings THEN crossings[id]
                ELSE [in |-> 0, out |-> 0]
    IN [k \in DOMAIN crossings \cup {id} |->
          IF k # id THEN crossings[k]
          ELSE IF direction = "in" THEN [base EXCEPT !.in = @ + 1]
          ELSE [in |-> base.in - 1, out |-> base.out + 1]]

\* the increment applied to both directions
CountCrossingBoth(crossings, id, direction) ==
    LET base == IF id \in DOMAIN crossings THEN crossings[id]
                ELSE [in |-> 0, out |-> 0]
    IN [k \in DOMAIN crossings \cup {id} |->
          IF k = id THEN [in |-> base.in + 1, out |-> base.out + 1]
          ELSE crossings[k]]

\* this.lineCrossings[id][direction]++, creating the entry when missing
CountCrossing(crossings, id, direction) ==
    LET base == IF id \in DOMAIN crossings THEN crossings[id]
                ELSE [in |-> 0, out |-> 0]
    IN [k \in DOMAIN crossings \cup {id} |->
          IF k = id THEN [base EXCEPT ![direction] = @ + 1]
          ELSE crossings[k]]

\* the transition that counts a stay inside as another entry
AreaTransitionEager(isInside, wasInside) ==
    IF isInside THEN "in"
    ELSE IF wasInside THEN "out"
    ELSE "none"

\* the transition without the memory of peopleInside
AreaTransitionMemoryless(isInside, wasInside) ==
    IF isInside THEN "in" ELSE "out"

\* which event, if any, an evaluation of an area emits
AreaTransition(isInside, wasInside) ==
    IF isInside /\ ~wasInside THEN "in"
    ELSE IF ~isInside /\ wasInside THEN "out"
    ELSE "none"

\* the exit that leaves the person in peopleInside
checkAreaCrossingSticky(lm, i, personId, currentPos, t) ==
    LET area == lm.lines[i]
        move == AreaTransition(AreaContains(area, currentPos),
                               personId \in area.peopleInside)
    IN IF move = "none" THEN lm
       ELSE onLineCrossed(
              [lm EXCEPT
                 !.lines[i].peopleInside = @ \cup {personId},
                 !.lineCrossings = CountCrossing(@, area.id, move)],
              CrossingEvent(area, personId, move, t))

\* checkAreaCrossing on the boundary at index i
checkAreaCrossing(lm, i, personId, currentPos, t) ==
    LET area == lm.lines[i]
        isInside == AreaContains(area, currentPos)
        wasInside == personId \in area.peopleInside
        move == AreaTransition(isInside, wasInside)
    IN IF move = "none" THEN lm
       ELSE onLineCrossed(
              [lm EXCEPT
                 !.lines[i].peopleInside =
                     IF move = "in" THEN @ \cup {personId} ELSE @ \ {personId},
                 !.lineCrossings = CountCrossing(@, area.id, move)],
              CrossingEvent(area, personId, move, t))

\* lastCrossing && (now - lastCrossing.timestamp) < 2000
\* the window at half its length
InCooldownShort(crossed, key, t) ==
    key \in DOMAIN crossed /\ (t - crossed[key].timestamp) < CooldownMs \div 2

\* the window closed at its far end
InCooldownInclusive(crossed, key, t) ==
    key \in DOMAIN crossed /\ (t - crossed[key].timestamp) <= CooldownMs

InCooldown(crossed, key, t) ==
    key \in DOMAIN crossed /\ (t - crossed[key].timestamp) < CooldownMs

\* the line branch of the loop of checkLineCrossings, boundary at index i
checkOneLine(lm, i, personId, prevPos, currentPos, t) ==
    LET line == lm.lines[i]
        crossingKey == CrossingKey(personId, line.id)
        direction == determineLineCrossingDirection(prevPos, currentPos,
                                                    line.start, line.end)
    IN IF ~lineIntersection(prevPos, currentPos, line.start, line.end) THEN lm
       ELSE IF InCooldown(lm.crossedTracks, crossingKey, t) THEN lm
       ELSE onLineCrossed(
              [lm EXCEPT
                 !.lineCrossings = CountCrossing(@, line.id, direction),
                 !.crossedTracks = SetKey(@, crossingKey,
                       [timestamp |-> t, direction |-> direction])],
              CrossingEvent(line, personId, direction, t))

RECURSIVE CheckFrom(_, _, _, _, _, _)
CheckFrom(lm, i, personId, prevPos, currentPos, t) ==
    IF i > Len(lm.lines) THEN lm
    ELSE CheckFrom(
           IF lm.lines[i].type = "area"
           THEN checkAreaCrossing(lm, i, personId, currentPos, t)
           ELSE checkOneLine(lm, i, personId, prevPos, currentPos, t),
           i + 1, personId, prevPos, currentPos, t)

checkLineCrossings(lm, personId, prevPos, currentPos, t) ==
    IF personId = 0 THEN lm
    ELSE CheckFrom(lm, 1, personId, prevPos, currentPos, t)

----------------------------------------------------------------------------
(* One tracker pass: PersonTracker.updateTracks with the application's     *)
(* onTrackUpdated listener, which runs inside the loop over the matches.   *)

\* tracker.onTrackUpdated as installed by the application
onTrackUpdated(lm, trackId, track, t) ==
    IF Len(track.history) >= 2
    THEN checkLineCrossings(lm, trackId,
                            track.history[Len(track.history) - 1].centroid,
                            track.history[Len(track.history)].centroid, t)
    ELSE lm

RECURSIVE MatchedLoop(_, _, _, _, _, _)
\* "Update matched tracks": st is [tracks, disappeared, lm, evaluated,
\* shifted]; evaluated lists the tracks handed to checkLineCrossings and
\* shifted those whose history did not grow, both for observation
MatchedLoop(st, matched, k, detections, t, cur) ==
    IF k > Len(matched)
    THEN [st |-> st, cur |-> cur]
    ELSE LET trackId == matched[k].trackId
             track == updateTrack(st.tracks[trackId],
                                  detections[matched[k].detectionIdx], t)
             st1 == [tracks |-> [st.tracks EXCEPT ![trackId] = track],
                     disappeared |->
                        [id \in DOMAIN st.disappeared \cup {trackId} |->
                            IF id = trackId THEN 0 ELSE st.disappeared[id]],
                     lm |-> onTrackUpdated(st.lm, trackId, track, t),
                     evaluated |->
                        IF Len(track.history) >= 2
                        THEN Append(st.evaluated, trackId)
                        ELSE st.evaluated,
                     shifted |->
                        IF Len(track.history) <= Len(st.tracks[trackId].history)
                        THEN Append(st.shifted, trackId)
                        ELSE st.shifted]
         IN MatchedLoop(st1, matched, k + 1, detections, t,
                        cur \cup {trackId})

\* the ids without the increment: every new track under the id first
SpawnIdsStuck(first, idxs) ==
    [k \in 1..Len(idxs) |-> [trackId |-> first, detectionIdx |-> idxs[k]]]

\* the tracks created for the detections at the indexes idxs, ids from first
SpawnIds(first, idxs) ==
    [k \in 1..Len(idxs) |-> [trackId |-> first + k - 1, detectionIdx |-> idxs[k]]]

\* every new track made from the first detection
SpawnedFromFirst(spawn, detections, t) ==
    [id \in {spawn[k].trackId : k \in 1..Len(spawn)} |->
        initializeTrack(id, detections[1], t)]

Spawned(spawn, detections, t) ==
    [id \in {spawn[k].trackId : k \in 1..Len(spawn)} |->
        LET k == CHOOSE k \in 1..Len(spawn) : spawn[k].trackId = id
        IN initializeTrack(id, detections[spawn[k].detectionIdx], t)]

Merge(f, g) ==
    [x \in DOMAIN f \cup DOMAIN g |-> IF x \in DOMAIN g THEN g[x] ELSE f[x]]

Restrict(f, S) == [x \in S |-> f[x]]

\* updateTracks that hands the first track it creates to the crossing check
updateTracksEvaluatingNew(trks, disp, nextId, lm, detections, t) ==
    IF Len(detections) = 0
    THEN LET h == handleDisappearances(trks, disp, <<>>)
         IN [tracks |-> h.tracks, disappeared |-> h.disappeared,
             nextTrackId |-> nextId, lm |-> lm,
             pass |-> [detections |-> 0, matched |-> <<>>, spawned |-> <<>>,
                       evaluated |-> <<>>, shifted |-> <<>>,
                       gone |-> h.gone]]
    ELSE IF DOMAIN trks = {}
    THEN LET spawn == SpawnIds(nextId, SortedIds(1..Len(detections)))
             at == Spawned(spawn, detections, t)[nextId].history[1].centroid
         IN [tracks |-> Spawned(spawn, detections, t), disappeared |-> disp,
             nextTrackId |-> nextId + Len(spawn),
             lm |-> checkLineCrossings(lm, nextId, at, at, t),
             pass |-> [detections |-> Len(detections), matched |-> <<>>,
                       spawned |-> spawn, evaluated |-> <<>>,
                       shifted |-> <<>>, gone |-> <<>>]]
    ELSE LET m == matchDetectionsToTracks(
                     calculateIoUMatrix(trks, detections), trks, detections)
             u == MatchedLoop([tracks |-> trks, disappeared |-> disp,
                               lm |-> lm, evaluated |-> <<>>,
                               shifted |-> <<>>],
                              m.matched, 1, detections, t, {})
             spawn == SpawnIds(nextId, m.unmatched)
             fresh == Spawned(spawn, detections, t)
             currentTracks == Merge(Restrict(u.st.tracks, u.cur), fresh)
             disp1 == Merge(u.st.disappeared, [id \in DOMAIN fresh |-> 0])
             h == handleDisappearances(u.st.tracks, disp1, currentTracks)
         IN [tracks |-> h.tracks, disappeared |-> h.disappeared,
             nextTrackId |-> nextId + Len(spawn), lm |-> u.st.lm,
             pass |-> [detections |-> Len(detections),
                       matched |-> m.matched, spawned |-> spawn,
                       evaluated |-> u.st.evaluated,
                       shifted |-> u.st.shifted, gone |-> h.gone]]

\* updateTracks(detections) on tracker state [tracks, disappeared,
\* nextTrackId] and line state lm at time t.  The result carries the new
\* state and, in pass, what was done.
updateTracks(trks, disp, nextId, lm, detections, t) ==
    IF Len(detections) = 0
    THEN LET h == handleDisappearances(trks, disp, <<>>)
         IN [tracks |-> h.tracks, disappeared |-> h.disappeared,
             nextTrackId |-> nextId, lm |-> lm,
             pass |-> [detections |-> 0, matched |-> <<>>, spawned |-> <<>>,
                       evaluated |-> <<>>, shifted |-> <<>>,
                       gone |-> h.gone]]
    ELSE IF DOMAIN trks = {}
    THEN LET spawn == SpawnIds(nextId, SortedIds(1..Len(detections)))
         IN [tracks |-> Spawned(spawn, detections, t), disappeared |-> disp,
             nextTrackId |-> nextId + Len(spawn), lm |-> lm,
             pass |-> [detections |-> Len(detections), matched |-> <<>>,
                       spawned |-> spawn, evaluated |-> <<>>,
                       shifted |-> <<>>, gone |-> <<>>]]
    ELSE LET m == matchDetectionsToTracks(
                     calculateIoUMatrix(trks, detections), trks, detections)
             u == MatchedLoop([tracks |-> trks, disappeared |-> disp,
                               lm |-> lm, evaluated |-> <<>>,
                               shifted |-> <<>>],
                              m.matched, 1, detections, t, {})
             spawn == SpawnIds(nextId, m.unmatched)
             fresh == Spawned(spawn, detections, t)
             currentTracks == Merge(Restrict(u.st.tracks, u.cur), fresh)
             disp1 == Merge(u.st.disappeared, [id \in DOMAIN fresh |-> 0])
             h == handleDisappearances(u.st.tracks, disp1, currentTracks)
         IN [tracks |-> h.tracks, disappeared |-> h.disappeared,
             nextTrackId |-> nextId + Len(spawn), lm |-> u.st.lm,
             pass |-> [detections |-> Len(detections),
                       matched |-> m.matched, spawned |-> spawn,
                       evaluated |-> u.st.evaluated,
                       shifted |-> u.st.shifted, gone |-> h.gone]]

\* the filter of detectPeople
\* the filter without the confidence test
detectPeopleAnyScore(predictions) ==
    SelectSeq(predictions, LAMBDA pred : pred.class = "person")

detectPeople(predictions) ==
    SelectSeq(predictions,
              LAMBDA pred : pred.class = "person"
                            /\ pred.score >= confidenceThreshold)

----------------------------------------------------------------------------
(* State, initial state and the record of the last operation *)

NoPass == [detections |-> 0, matched |-> <<>>, spawned |-> <<>>,
           evaluated |-> <<>>, shifted |-> <<>>, gone |-> <<>>]

\* lastOp: the operation's name, its argument (an id, the detector's
\* predictions for a pass, or 0), what a
\* tracker pass in it did, and the crossing events it emitted, in order
Op(name, arg, pass, emitted) ==
    [op |-> name, arg |-> arg, pass |-> pass, emitted |-> emitted]

LM == [lines |-> lines, lineCrossings |-> lineCrossings,
       crossedTracks |-> crossedTracks, counts |-> counts, events |-> <<>>,
       accepted |-> accepted]

passVars == <<tracks, disappeared, nextTrackId, lines, lineCrossings,
              crossedTracks, counts, accepted>>
loopVars == <<frameCount, detecting, rafPending, nextRafId, animationId>>
startVars == <<isModelLoaded, useSynthetic, hasSession, starting>>

\* options.name || fallback: an option that is missing or 0 is falsy
OrDefault(options, name, fallback) ==
    IF name \in DOMAIN options /\ options[name] # 0
    THEN options[name] ELSE fallback

\* the configuration the constructor of PersonTracker stores; the
\* threshold is in tenths
PersonTracker(options) ==
    [confidenceThreshold |-> OrDefault(options, "confidenceThreshold", 4),
     maxDisappearedFrames |-> OrDefault(options, "maxDisappearedFrames", 15),
     historyLength |-> OrDefault(options, "historyLength", 10)]

\* the options the application constructs its tracker with
appOptions ==
    [confidenceThreshold |-> confidenceThreshold,
     maxDisappearedFrames |-> maxDisappearedFrames,
     historyLength |-> historyLength]

Init ==
    /\ tracks = <<>>
    /\ config = PersonTracker(appOptions)
    /\ disappeared = <<>>
    /\ nextTrackId = 1
    /\ isModelLoaded = FALSE
    /\ lines = <<>>
    /\ nextLineId = 1
    /\ lineCrossings = <<>>
    /\ crossedTracks = <<>>
    /\ counts = [total |-> 0, in |-> 0, out |-> 0]
    /\ hasSession = FALSE
    /\ mode = "setup"
    /\ isRunning = FALSE
    /\ animationId = 0
    /\ frameCount = 0
    /\ starting = [init |-> 0, session |-> 0]
    /\ detecting = 0
    /\ rafPending = {}
    /\ nextRafId = 1
    /\ useSynthetic = FALSE
    /\ now = 0
    /\ accepted = <<>>
    /\ lastOp = Op("init", 0, NoPass, <<>>)

----------------------------------------------------------------------------
(* Tracker pass as a step *)

\* tracker.processFrame once the detector has answered with predictions:
\* detectPeople's filter, updateTracks and the listeners it calls
TrackerPass(predictions, name) ==
    \E r \in {updateTracks(tracks, disappeared, nextTrackId, LM,
                            detectPeople(predictions), now)} :
       /\ r.nextTrackId <= MaxTrackId + 1
       /\ r.lm.counts.total <= MaxEvents
       /\ tracks' = r.tracks
       /\ disappeared' = r.disappeared
       /\ nextTrackId' = r.nextTrackId
       /\ lines' = r.lm.lines
       /\ lineCrossings' = r.lm.lineCrossings
       /\ crossedTracks' = r.lm.crossedTracks
       /\ counts' = r.lm.counts
       /\ accepted' = r.lm.accepted
       /\ lastOp' = Op(name, predictions, r.pass, r.lm.events)

\* tracker.initialize() called on its own, the model loading at once
Initialize ==
    /\ ~isModelLoaded
    /\ isModelLoaded' = TRUE
    /\ lastOp' = Op("initialize", 0, NoPass, <<>>)
    /\ UNCHANGED <<config, passVars, nextLineId, loopVars, useSynthetic, hasSession,
                   starting, mode, isRunning, now>>

\* new PersonTracker(options) in place of the tracker
Construct(options) ==
    /\ config' = PersonTracker(options)
    /\ tracks' = <<>>
    /\ disappeared' = <<>>
    /\ nextTrackId' = 1
    /\ isModelLoaded' = FALSE
    /\ lastOp' = Op("construct", 0, NoPass, <<>>)
    /\ UNCHANGED <<lines, lineCrossings, crossedTracks, counts, accepted,
                   nextLineId, loopVars, useSynthetic, hasSession, starting,
                   mode, isRunning, now>>

\* tracker.processFrame called on its own, the detector answering
\* predictions at once; it throws before any effect without a model
ProcessFrame(predictions) ==
    /\ isModelLoaded \/ useSynthetic
    /\ TrackerPass(predictions, "pass")
    /\ UNCHANGED <<config, nextLineId, loopVars, startVars, mode, isRunning, now>>

\* the clock
Tick ==
    /\ now + TickMs <= MaxTicks * TickMs
    /\ now' = now + TickMs
    /\ lastOp' = Op("tick", 0, NoPass, <<>>)
    /\ UNCHANGED <<config, passVars, nextLineId, loopVars, startVars, mode, isRunning>>

----------------------------------------------------------------------------
(* LineManager operations.  A name is <<text, number>>, number 0 when the  *)
(* name has none.  The onLineAdded and onLineRemoved listeners only write  *)
(* to the log, the list view and the backend.                              *)

defaultLineNames == <<"North Entrance", "South Exit", "Main Door",
                      "Side Entrance", "Emergency Exit">>

generateLineName(orientation, count) ==
    IF count < Len(defaultLineNames) THEN <<defaultLineNames[count + 1], 0>>
    ELSE <<orientation, count + 1>>

\* the boundary object addLine builds for the request line under lineId;
\* a request is [type, name, start, end, points], name <<>> when not given
NewLine(line, lineId, count) ==
    LET orientation ==
            IF line.type = "line"
            THEN (IF Abs(line.end[1] - line.start[1])
                       < Abs(line.end[2] - line.start[2])
                  THEN "vertical" ELSE "horizontal")
            ELSE "null"
    IN [id |-> lineId,
        type |-> line.type,
        name |-> IF line.name # <<>> THEN line.name
                 ELSE IF line.type = "area" THEN <<"Area", lineId>>
                 ELSE generateLineName(orientation, count),
        orientation |-> orientation,
        points |-> IF line.type = "area" THEN line.points ELSE <<>>,
        start |-> IF line.type = "area" /\ line.points # <<>>
                  THEN <<>> ELSE line.start,
        end |-> IF line.type = "area" /\ line.points # <<>>
                THEN <<>> ELSE line.end,
        peopleInside |-> {}]

\* lineCrossings after this.lineCrossings[lineId] = { in: 0, out: 0 }
ZeroEntry(crossings, lineId) ==
    [k \in DOMAIN crossings \cup {lineId} |->
        IF k = lineId THEN [in |-> 0, out |-> 0] ELSE crossings[k]]

\* addLine while fewer than maxId ids are issued and fewer than maxLines
\* boundaries are drawn
AddLineWithin(line, maxId, maxLines) ==
    /\ nextLineId <= maxId
    /\ Len(lines) < maxLines
    /\ lines' = Append(lines, NewLine(line, nextLineId, Len(lines)))
    /\ lineCrossings' = ZeroEntry(lineCrossings, nextLineId)
    /\ nextLineId' = nextLineId + 1
    /\ lastOp' = Op("addLine", nextLineId, NoPass, <<>>)
    /\ UNCHANGED <<config, tracks, disappeared, nextTrackId, crossedTracks, counts,
                   accepted, loopVars, startVars, mode, isRunning, now>>

AddLine(line) == AddLineWithin(line, MaxLineId, MaxLines)

\* removeLine without the purge of crossedTracks
KeysToDeleteNone(crossed, lineId) == {}

\* the keys removeLine deletes from crossedTracks
KeysToDelete(crossed, lineId) ==
    {key \in DOMAIN crossed : Includes(key, KeySuffix(lineId))}

\* the sequence without its element at index i (splice(i, 1))
Splice(s, i) == [k \in 1..(Len(s) - 1) |-> IF k < i THEN s[k] ELSE s[k + 1]]

\* removeLine without "delete this.lineCrossings[lineId]"
RemoveLineKeepsCounts(lineId) ==
    /\ \E i \in 1..Len(lines) :
          /\ lines[i].id = lineId
          /\ lines' = Splice(lines, i)
    /\ crossedTracks' = Restrict(crossedTracks,
              DOMAIN crossedTracks \ KeysToDelete(crossedTracks, lineId))
    /\ lastOp' = Op("removeLine", lineId, NoPass, <<>>)
    /\ UNCHANGED <<config, tracks, disappeared, nextTrackId, nextLineId,
                   lineCrossings, counts, accepted, loopVars, startVars,
                   mode, isRunning, now>>

RemoveLine(lineId) ==
    /\ \E i \in 1..Len(lines) :
          /\ lines[i].id = lineId
          /\ lines' = Splice(lines, i)
    /\ lineCrossings' = Restrict(lineCrossings, DOMAIN lineCrossings \ {lineId})
    /\ crossedTracks' = Restrict(crossedTracks,
              DOMAIN crossedTracks \ KeysToDelete(crossedTracks, lineId))
    /\ lastOp' = Op("removeLine", lineId, NoPass, <<>>)
    /\ UNCHANGED <<config, tracks, disappeared, nextTrackId, nextLineId, counts,
                   accepted, loopVars, startVars, mode, isRunning, now>>

ClearLines ==
    /\ lines' = <<>>
    /\ lineCrossings' = <<>>
    /\ crossedTracks' = <<>>
    /\ lastOp' = Op("clearLines", 0, NoPass, <<>>)
    /\ UNCHANGED <<config, tracks, disappeared, nextTrackId, nextLineId, counts,
                   accepted, loopVars, startVars, mode, isRunning, now>>

\* counters taken down by one instead of set to zero
ZeroCountsStep(crossings) ==
    [k \in DOMAIN crossings |-> [in |-> Max(crossings[k].in - 1, 0),
                                 out |-> Max(crossings[k].out - 1, 0)]]

\* LineManager.resetCounts: what it does to lineCrossings
ZeroCounts(crossings) == [k \in DOMAIN crossings |-> [in |-> 0, out |-> 0]]

\* resetCounts that also empties every area
resetCountsEmptying(ls) ==
    [ls EXCEPT !.lineCrossings = ZeroCounts(@), !.crossedTracks = <<>>,
               !.lines = [i \in 1..Len(ls.lines) |->
                             [ls.lines[i] EXCEPT !.peopleInside = {}]]]

\* LineManager.resetCounts on the line state [lines, lineCrossings,
\* crossedTracks]
resetCounts(ls) ==
    [ls EXCEPT !.lineCrossings = ZeroCounts(@), !.crossedTracks = <<>>]

\* the line state of the LineManager
LineState == [lines |-> lines, lineCrossings |-> lineCrossings,
              crossedTracks |-> crossedTracks]

\* the application's resetCounts: its totals, then LineManager.resetCounts
ResetCounts ==
    /\ counts' = [total |-> 0, in |-> 0, out |-> 0]
    /\ \E r \in {resetCounts(LineState)} :
          /\ lines' = r.lines
          /\ lineCrossings' = r.lineCrossings
          /\ crossedTracks' = r.crossedTracks
    /\ lastOp' = Op("reset", 0, NoPass, <<>>)
    /\ UNCHANGED <<config, tracks, disappeared, nextTrackId, nextLineId, accepted,
                   loopVars, startVars, mode, isRunning, now>>

----------------------------------------------------------------------------
(* CountInApp: modes and the frame loop.  An async method is cut at its   *)
(* awaits that wait for something outside the program: the model load and  *)
(* the session request in startCounting, the detector call in              *)
(* processFrame.  With synthetic detections the tracker answers without    *)
(* waiting, so the pass runs in the step that starts it.                   *)

detectionInterval == 3

\* this.animationId = requestAnimationFrame(...), pending being the handles
\* not yet run
Schedule(pending) ==
    /\ nextRafId <= MaxRafId
    /\ animationId' = nextRafId
    /\ rafPending' = pending \cup {nextRafId}
    /\ nextRafId' = nextRafId + 1

\* processFrame whose catch only logs: a pass that throws schedules nothing
RunFrameCatchStops(fc, pending, loaded, synthetic, predictions, name) ==
    /\ frameCount' = fc + 1
    /\ IF (fc + 1) % detectionInterval # 0
       THEN /\ Schedule(pending)
            /\ lastOp' = Op(name, 0, NoPass, <<>>)
            /\ UNCHANGED <<passVars, detecting>>
       ELSE IF ~loaded /\ ~synthetic
       THEN /\ rafPending' = pending
            /\ lastOp' = Op("frameThrew", 0, NoPass, <<>>)
            /\ UNCHANGED <<passVars, detecting, animationId, nextRafId>>
       ELSE IF synthetic
       THEN /\ TrackerPass(predictions, name)
            /\ Schedule(pending)
            /\ UNCHANGED detecting
       ELSE /\ detecting' = detecting + 1
            /\ rafPending' = pending
            /\ lastOp' = Op(name, 0, NoPass, <<>>)
            /\ UNCHANGED <<passVars, animationId, nextRafId>>

\* processFrame past its isRunning test, with frameCount fc on entry;
\* loaded and synthetic are isModelLoaded and useSyntheticDetections then,
\* predictions is what a synthetic detector answers
\* processFrame that hands every frame to the tracker
RunFrameEveryFrame(fc, pending, loaded, synthetic, predictions, name) ==
    /\ frameCount' = fc + 1
    /\ IF ~loaded /\ ~synthetic
       THEN /\ Schedule(pending)
            /\ lastOp' = Op("frameThrew", 0, NoPass, <<>>)
            /\ UNCHANGED <<passVars, detecting>>
       ELSE IF synthetic
       THEN /\ TrackerPass(predictions, name)
            /\ Schedule(pending)
            /\ UNCHANGED detecting
       ELSE /\ detecting' = detecting + 1
            /\ rafPending' = pending
            /\ lastOp' = Op(name, 0, NoPass, <<>>)
            /\ UNCHANGED <<passVars, animationId, nextRafId>>

RunFrame(fc, pending, loaded, synthetic, predictions, name) ==
    /\ frameCount' = fc + 1
    /\ IF (fc + 1) % detectionInterval # 0
       THEN \* a skipped frame
            /\ Schedule(pending)
            /\ lastOp' = Op(name, 0, NoPass, <<>>)
            /\ UNCHANGED <<passVars, detecting>>
       ELSE IF ~loaded /\ ~synthetic
       THEN \* tracker.processFrame throws, the catch schedules the next frame
            /\ Schedule(pending)
            /\ lastOp' = Op("frameThrew", 0, NoPass, <<>>)
            /\ UNCHANGED <<passVars, detecting>>
       ELSE IF synthetic
       THEN /\ TrackerPass(predictions, name)
            /\ Schedule(pending)
            /\ UNCHANGED detecting
       ELSE \* suspended at the detector call
            /\ detecting' = detecting + 1
            /\ rafPending' = pending
            /\ lastOp' = Op(name, 0, NoPass, <<>>)
            /\ UNCHANGED <<passVars, animationId, nextRafId>>

\* the end of startCounting: isRunning = true, frameCount = 0, processFrame()
BeginLoop(loaded, synthetic, predictions, name) ==
    /\ isRunning' = TRUE
    /\ RunFrame(0, rafPending, loaded, synthetic, predictions, name)

\* stopCounting
StopCounting ==
    IF ~isRunning THEN UNCHANGED <<isRunning, rafPending, animationId>>
    ELSE /\ isRunning' = FALSE
         /\ IF animationId # 0
            THEN /\ rafPending' = rafPending \ {animationId}
                 /\ animationId' = 0
            ELSE UNCHANGED <<rafPending, animationId>>

\* setMode('setup') from counting mode
SetModeSetup ==
    /\ mode # "setup"
    /\ mode' = "setup"
    /\ StopCounting
    /\ lastOp' = Op("setModeSetup", 0, NoPass, <<>>)
    /\ UNCHANGED <<config, passVars, nextLineId, frameCount, detecting, nextRafId,
                   startVars, now>>

\* setMode('counting') from setup mode with no boundary drawn: refused
SetModeRefused ==
    /\ mode # "counting"
    /\ Len(lines) = 0
    /\ lastOp' = Op("setModeRefused", 0, NoPass, <<>>)
    /\ UNCHANGED <<config, passVars, nextLineId, loopVars, startVars, mode,
                   isRunning, now>>

\* setMode('counting') from setup mode with a boundary drawn; it calls
\* startCounting unless isRunning, which runs to its first await
SetModeCounting(predictions) ==
    /\ mode # "counting"
    /\ Len(lines) # 0
    /\ mode' = "counting"
    /\ IF isRunning
       THEN /\ lastOp' = Op("setModeCounting", 0, NoPass, <<>>)
            /\ UNCHANGED <<passVars, loopVars, starting, isRunning>>
       ELSE IF ~isModelLoaded
       THEN /\ starting' = [starting EXCEPT !.init = @ + 1]
            /\ lastOp' = Op("setModeCounting", 0, NoPass, <<>>)
            /\ UNCHANGED <<passVars, loopVars, isRunning>>
       ELSE IF ~hasSession
       THEN /\ starting' = [starting EXCEPT !.session = @ + 1]
            /\ lastOp' = Op("setModeCounting", 0, NoPass, <<>>)
            /\ UNCHANGED <<passVars, loopVars, isRunning>>
       ELSE /\ BeginLoop(isModelLoaded, useSynthetic, predictions,
                         "setModeCounting")
            /\ UNCHANGED starting
    /\ UNCHANGED <<config, nextLineId, isModelLoaded, useSynthetic, hasSession, now>>

\* tracker.initialize() settles for a startCounting waiting for it: the
\* model is loaded, or the failure switches to synthetic detections
InitializeDone(ok, predictions) ==
    /\ starting.init > 0
    /\ isModelLoaded' = (isModelLoaded \/ ok)
    /\ useSynthetic' = (useSynthetic \/ ~ok)
    /\ IF ~hasSession
       THEN /\ starting' = [init |-> starting.init - 1,
                            session |-> starting.session + 1]
            /\ lastOp' = Op("initializeDone", 0, NoPass, <<>>)
            /\ UNCHANGED <<passVars, loopVars, isRunning>>
       ELSE /\ starting' = [starting EXCEPT !.init = @ - 1]
            /\ BeginLoop(isModelLoaded \/ ok, useSynthetic \/ ~ok,
                         predictions, "initializeDone")
    /\ UNCHANGED <<config, nextLineId, hasSession, mode, now>>

\* apiService.createSession settles for a startCounting waiting for it
SessionDone(ok, predictions) ==
    /\ starting.session > 0
    /\ starting' = [starting EXCEPT !.session = @ - 1]
    /\ hasSession' = (hasSession \/ ok)
    /\ BeginLoop(isModelLoaded, useSynthetic, predictions, "sessionDone")
    /\ UNCHANGED <<config, nextLineId, isModelLoaded, useSynthetic, mode, now>>

\* a requestAnimationFrame callback runs processFrame
RafFire(id, predictions) ==
    /\ id \in rafPending
    /\ IF ~isRunning
       THEN /\ rafPending' = rafPending \ {id}
            /\ lastOp' = Op("frameIgnored", 0, NoPass, <<>>)
            /\ UNCHANGED <<passVars, frameCount, detecting, nextRafId,
                           animationId>>
       ELSE RunFrame(frameCount, rafPending \ {id}, isModelLoaded,
                     useSynthetic, predictions, "frame")
    /\ UNCHANGED <<config, nextLineId, startVars, mode, isRunning, now>>

\* the detector call of a suspended pass settles: the rest of
\* tracker.processFrame, then the rest of the application's processFrame.
\* A failed call is caught and answers no prediction.
DetectDone(ok, predictions) ==
    /\ detecting > 0
    /\ detecting' = detecting - 1
    /\ IF ok THEN TrackerPass(predictions, "detectDone")
             ELSE TrackerPass(<<>>, "detectFailed")
    /\ Schedule(rafPending)
    /\ UNCHANGED <<config, nextLineId, frameCount, startVars, mode, isRunning, now>>

----------------------------------------------------------------------------
(* Inputs.  Boxes are 4 wide and 4 high on the row y = 0: two boxes 2     *)
(* apart overlap with IoU 1/3 (a match), two boxes 4 apart do not overlap. *)

Box(x) == <<x, 0, 4, 4>>
Person(x) == [bbox |-> Box(x), class |-> "person", score |-> 9]

\* the lists of at most n elements of S
RECURSIVE SeqsUpTo(_, _)
SeqsUpTo(S, n) ==
    IF n = 0 THEN {<<>>}
    ELSE LET shorter == SeqsUpTo(S, n - 1)
         IN shorter \cup {Append(s, x) : s \in shorter, x \in S}

TrackerXs == {0, 2, 4}
TrackerFrames == SeqsUpTo({Person(x) : x \in TrackerXs}, 2)

(* The tracker alone: no boundary is ever drawn.  The tracker reads the     *)
(* clock only to stamp its samples, so the clock stands still here.         *)
TrackerFrame == \E predictions \in TrackerFrames : ProcessFrame(predictions)

NextTracker == Initialize \/ TrackerFrame

SpecTracker == Init /\ [][NextTracker]_vars

(* The tracker and the boundaries: frames are handed to the tracker       *)
(* directly while boundaries are drawn, removed and reset.  The vertical   *)
(* line x = 5 separates the centroids of Box(2) and Box(4); the two areas  *)
(* contain the centroid of Box(4) and not that of Box(2).                  *)

VLine == [type |-> "line", name |-> <<>>, start |-> <<5, 0>>, end |-> <<5, 4>>,
          points |-> <<>>]
RectArea == [type |-> "area", name |-> <<>>, start |-> <<5, 0>>,
             end |-> <<9, 4>>, points |-> <<>>]
PolyArea == [type |-> "area", name |-> <<>>, start |-> <<>>, end |-> <<>>,
             points |-> <<<<5, 0>>, <<9, 0>>, <<9, 4>>, <<5, 4>>>>]
Requests == {VLine, RectArea, PolyArea}

LinesXs == {2, 4}
LinesFrames == SeqsUpTo({Person(x) : x \in LinesXs}, 1)

LinesFrame ==
    \E predictions \in LinesFrames :
        /\ ProcessFrame(predictions)
        /\ nextTrackId' <= MaxWatched + 1
DrawLine == \E line \in Requests : AddLine(line)
DeleteLine == \E lineId \in 1..MaxLineId : RemoveLine(lineId)

NextLines ==
    \/ Initialize
    \/ LinesFrame
    \/ Tick
    \/ DrawLine
    \/ DeleteLine
    \/ ClearLines
    \/ ResetCounts

SpecLines == Init /\ [][NextLines]_vars

(* The application: boundaries are drawn and deleted in its list view and  *)
(* frames reach the tracker through the frame loop only.                   *)

AppFrames == LinesFrames
AppRequests == {VLine, RectArea}

Watched == nextTrackId' <= MaxWatched + 1

SwitchToCounting ==
    \E predictions \in AppFrames :
        /\ SetModeCounting(predictions)
        /\ Watched
        /\ starting'.init + starting'.session <= MaxStarts
ModelLoaded ==
    \E ok \in BOOLEAN, predictions \in AppFrames :
        InitializeDone(ok, predictions) /\ Watched
SessionCreated ==
    \E ok \in BOOLEAN, predictions \in AppFrames :
        SessionDone(ok, predictions) /\ Watched
AnimationFrame ==
    \E id \in rafPending, predictions \in AppFrames :
        RafFire(id, predictions) /\ Watched
DetectorAnswer ==
    \E ok \in BOOLEAN, predictions \in AppFrames :
        DetectDone(ok, predictions) /\ Watched

SketchLine == \E line \in AppRequests : AddLine(line)

Next ==
    \/ SketchLine
    \/ DeleteLine
    \/ SetModeSetup
    \/ SetModeRefused
    \/ SwitchToCounting
    \/ ModelLoaded
    \/ SessionCreated
    \/ AnimationFrame
    \/ DetectorAnswer

Spec == Init /\ [][Next]_vars

(* The scenarios of the examples, on a canvas 200 wide: one person whose   *)
(* centroid moves between given points, in a box 400 wide and high so that  *)
(* consecutive samples match, and one kind of boundary at a time.           *)

(* The frame loop with the detector's switch: rfdetrAdapter's              *)
(* disableSyntheticDetections() can be called at any time, also on a       *)
(* tracker whose model never loaded.                                       *)
disableSyntheticDetections ==
    /\ useSynthetic
    /\ useSynthetic' = FALSE
    /\ lastOp' = Op("disableSynthetic", 0, NoPass, <<>>)
    /\ UNCHANGED <<config, passVars, nextLineId, loopVars, isModelLoaded,
                   hasSession, starting, mode, isRunning, now>>

LoopLine == AddLine(VLine)

NextLoop ==
    \/ LoopLine
    \/ SetModeSetup
    \/ SwitchToCounting
    \/ ModelLoaded
    \/ SessionCreated
    \/ AnimationFrame
    \/ DetectorAnswer
    \/ disableSyntheticDetections

SpecLoop == Init /\ [][NextLoop]_vars

(* Construction of a tracker from options a caller chose.                   *)
OptionNames == {"confidenceThreshold", "maxDisappearedFrames", "historyLength"}
OptionValues == {-1, 0, 1, 2}
OptionSets ==
    UNION {[given -> OptionValues] : given \in SUBSET OptionNames}
Constructed == \E options \in OptionSets : Construct(options)

NextConstruct == Constructed \/ Initialize

SpecConstruct == Init /\ [][NextConstruct]_vars

(* Drawing.  A gesture's handlers keep what is being drawn in drawingLine, *)
(* drawingPoints and drawingMode; the handler that ends the gesture is the *)
(* action, and what the earlier handlers had stored is its input.          *)
MinDrawLength == 20
DistSq(p, q) == (q[1] - p[1]) * (q[1] - p[1]) + (q[2] - p[2]) * (q[2] - p[2])
Discard(name) ==
    /\ lastOp' = Op(name, 0, NoPass, <<>>)
    /\ UNCHANGED <<config, passVars, nextLineId, loopVars, startVars, mode,
                   isRunning, now>>

Drawing(drawingMode, start, end) ==
    [type |-> drawingMode, name |-> <<>>, start |-> start, end |-> end,
     points |-> <<>>]

\* handleMouseUp in line mode, the drag having gone from start to end
handleMouseUp(start, end) ==
    /\ nextLineId <= MaxLineId /\ Len(lines) < MaxLines
    /\ IF DistSq(start, end) >= MinDrawLength * MinDrawLength
       THEN AddLine(Drawing("line", start, end))
       ELSE Discard("mouseUp")

\* handleMouseDown in area mode at point at, the clicks before it having
\* left drawingPoints: the click closes the polygon or adds a vertex
handleMouseDown(drawingPoints, at) ==
    /\ nextLineId <= MaxLineId /\ Len(lines) < MaxLines
    /\ IF /\ Len(drawingPoints) >= 3
          /\ DistSq(drawingPoints[1], at) < MinDrawLength * MinDrawLength
       THEN AddLine([type |-> "area", name |-> <<>>, start |-> <<>>,
                     end |-> <<>>, points |-> drawingPoints])
       ELSE Discard("mouseDown")

\* handleTouchEnd, the touch having gone from start to end in drawingMode
handleTouchEnd(drawingMode, start, end) ==
    /\ nextLineId <= MaxLineId /\ Len(lines) < MaxLines
    /\ IF DistSq(start, end) >= MinDrawLength * MinDrawLength
       THEN AddLine(Drawing(drawingMode, start, end))
       ELSE Discard("touchEnd")

DrawPoints ==
    {<<0, 0>>, <<10, 0>>, <<30, 0>>, <<30, 30>>, <<0, 30>>, <<10, 30>>}
DrawPolygons ==
    {<<<<0, 0>>, <<30, 0>>>>, <<<<0, 0>>, <<30, 0>>, <<30, 30>>>>}
DirectRequests ==
    {Drawing(type, <<0, 0>>, end) :
        type \in {"line", "area"}, end \in {<<0, 0>>, <<30, 30>>}}
       \cup {[type |-> "area", name |-> <<>>, start |-> <<>>, end |-> <<>>,
              points |-> points] : points \in DrawPolygons}

AddLineDirect == \E line \in DirectRequests : AddLine(line)
MouseDrag == \E start \in DrawPoints, end \in DrawPoints :
                handleMouseUp(start, end)
MouseClick == \E drawingPoints \in DrawPolygons, at \in DrawPoints :
                 handleMouseDown(drawingPoints, at)
Touch == \E drawingMode \in {"line", "area"},
            start \in DrawPoints, end \in DrawPoints :
            handleTouchEnd(drawingMode, start, end)

NextDraw == AddLineDirect \/ MouseDrag \/ MouseClick \/ Touch \/ DeleteLine

SpecDraw == Init /\ [][NextDraw]_vars

(* The tracker alone with a detector that is not always sure: people seen  *)
(* with confidence 0.9, 0.4 (the threshold itself) and 0.3.                *)
Scored(x, score) == [bbox |-> Box(x), class |-> "person", score |-> score]
DetectInputs == {Scored(0, 9), Scored(2, 4), Scored(2, 3)}
DetectFrames == SeqsUpTo(DetectInputs, 2)
DetectFrame == \E predictions \in DetectFrames : ProcessFrame(predictions)

\* tracker.processFrame when the detector call throws: detectPeople catches
\* the error and answers with no detections
DetectFails ==
    /\ isModelLoaded /\ ~useSynthetic
    /\ TrackerPass(<<>>, "detectFailed")
    /\ UNCHANGED <<config, nextLineId, loopVars, startVars, mode, isRunning, now>>

NextDetect == Initialize \/ DetectFrame \/ DetectFails

SpecDetect == Init /\ [][NextDetect]_vars

ScenarioBox(c) == <<c[1] - 200, c[2] - 200, 400, 400>>
ScenarioPerson(c) == [bbox |-> ScenarioBox(c), class |-> "person", score |-> 9]
ScenarioFrames(centroids) ==
    SeqsUpTo({ScenarioPerson(c) : c \in centroids}, 1)

ScenarioFrame(centroids) ==
    \E predictions \in ScenarioFrames(centroids) :
        /\ ProcessFrame(predictions)
        /\ nextTrackId' <= MaxWatched + 1

(* The vertical line x = 100, drawn downwards or upwards, and the          *)
(* centroids (50,50) and (150,50) on either side of it                      *)
LineDown == [type |-> "line", name |-> <<>>, start |-> <<100, 0>>,
             end |-> <<100, 200>>, points |-> <<>>]
LineUp == [type |-> "line", name |-> <<>>, start |-> <<100, 200>>,
           end |-> <<100, 0>>, points |-> <<>>]
AcrossLine == {<<50, 50>>, <<150, 50>>}

CrossLineFrame == ScenarioFrame(AcrossLine)
CrossLineDraw == \E line \in {LineDown, LineUp} : AddLine(line)

NextCrossLine ==
    \/ Initialize
    \/ CrossLineFrame
    \/ Tick
    \/ CrossLineDraw

SpecCrossLine == Init /\ [][NextCrossLine]_vars

(* The rectangular area (0,0)-(100,100) and the centroids (150,150)        *)
(* outside and (50,50) inside it                                            *)
ScenarioArea == [type |-> "area", name |-> <<>>, start |-> <<0, 0>>,
                 end |-> <<100, 100>>, points |-> <<>>]
AcrossArea == {<<150, 150>>, <<50, 50>>}

CrossAreaFrame == ScenarioFrame(AcrossArea)
CrossAreaDraw == AddLine(ScenarioArea)

NextCrossArea ==
    \/ Initialize
    \/ CrossAreaFrame
    \/ Tick
    \/ CrossAreaDraw

SpecCrossArea == Init /\ [][NextCrossArea]_vars

(* Steps and lines in the plane: one person seen at the centroids (4,2)  *)
(* and (6,2), so that a track steps along the row y = 2 or not at all, and *)
(* lines that such a step crosses, ends on, runs along or passes beyond    *)
(* the end of.  The direction button of the line list swaps the ends of a  *)
(* drawn line.                                                             *)
GeoPerson(at) ==
    [bbox |-> <<at[1], at[2], 4, 4>>, class |-> "person", score |-> 9]
GeoPlaces == {<<2, 0>>, <<4, 0>>}
GeoFrames == {<<GeoPerson(at)>> : at \in GeoPlaces}
GeoEnds ==
    {<<<<5, 0>>, <<5, 4>>>>, <<<<5, 3>>, <<5, 6>>>>, <<<<4, 0>>, <<8, 4>>>>,
     <<<<3, 2>>, <<9, 2>>>>}
GeoRequests == {Drawing("line", ends[1], ends[2]) : ends \in GeoEnds}

GeoFrame ==
    \E predictions \in GeoFrames :
        /\ ProcessFrame(predictions)
        /\ nextTrackId' <= MaxWatched + 1
GeoDraw == \E line \in GeoRequests : AddLine(line)

\* the click on the direction button of the boundary at index i
SwapDirection(i) ==
    /\ i \in 1..Len(lines)
    /\ lines' = [lines EXCEPT ![i].start = lines[i].end,
                              ![i].end = lines[i].start]
    /\ lastOp' = Op("swapDirection", lines[i].id, NoPass, <<>>)
    /\ UNCHANGED <<config, tracks, disappeared, nextTrackId, nextLineId,
                   lineCrossings, crossedTracks, counts, accepted, loopVars,
                   startVars, mode, isRunning, now>>
GeoSwap == \E i \in 1..MaxLines : SwapDirection(i)

NextGeometry == Initialize \/ GeoFrame \/ Tick \/ GeoDraw \/ GeoSwap

SpecGeometry == Init /\ [][NextGeometry]_vars

(* Areas as rectangles and as polygons on the same four corners, with the *)
(* centroids (4,2) and (6,2) on their edges, on their corners, inside and  *)
(* outside: a rectangle is dragged by touch, a polygon clicked corner by    *)
(* corner.                                                                 *)
EdgeCorners ==
    {<<<<4, 0>>, <<6, 4>>>>, <<<<4, 2>>, <<6, 4>>>>, <<<<4, 0>>, <<6, 2>>>>,
     <<<<5, 0>>, <<9, 4>>>>}
EdgePolygon(lo, hi) ==
    [type |-> "area", name |-> <<>>, start |-> <<>>, end |-> <<>>,
     points |-> <<lo, <<hi[1], lo[2]>>, hi, <<lo[1], hi[2]>>>>]
EdgeRequests ==
    {Drawing("area", c[1], c[2]) : c \in EdgeCorners}
       \cup {EdgePolygon(c[1], c[2]) : c \in EdgeCorners}

EdgeFrame ==
    \E predictions \in GeoFrames :
        /\ ProcessFrame(predictions)
        /\ nextTrackId' <= MaxWatched + 1
EdgeDraw == \E area \in EdgeRequests : AddLine(area)

NextAreaEdge == Initialize \/ EdgeFrame \/ EdgeDraw

SpecAreaEdge == Init /\ [][NextAreaEdge]_vars

(* A registry that has issued ten ids: lines and areas are drawn and       *)
(* deleted until the ids have two digits, two of them standing at once,    *)
(* and then one person walks across what stands.                           *)
RegistryDraw ==
    \E line \in {VLine, RectArea} : AddLineWithin(line, ManyLineId, ManyLines)
RegistryDelete == \E lineId \in 1..ManyLineId : RemoveLine(lineId)
RegistryFrame == nextLineId > ManyLineId /\ LinesFrame

NextRegistry == Initialize \/ RegistryFrame \/ RegistryDraw \/ RegistryDelete

SpecRegistry == Init /\ [][NextRegistry]_vars

----------------------------------------------------------------------------
(* Properties of the tracker, stated under SpecTracker.  lastOp.pass is    *)
(* what the pass that produced a state did; in a step, lastOp' is what the  *)
(* step does.                                                              *)

TrackIdsOf(pairs) == {pairs[k].trackId : k \in 1..Len(pairs)}
DetectionsOf(pairs) == {pairs[k].detectionIdx : k \in 1..Len(pairs)}

\* C2: in every processed frame the association is one-to-one: no detection
\* index is matched to two tracks, no track is matched to two detections,
\* and no detection is both matched to a track and used to spawn a track.
C2_AssociationOneToOne ==
    LET matched == lastOp.pass.matched
        spawned == lastOp.pass.spawned
    IN /\ \A a, b \in 1..Len(matched) :
             a # b => /\ matched[a].trackId # matched[b].trackId
                      /\ matched[a].detectionIdx # matched[b].detectionIdx
       /\ DetectionsOf(matched) \cap DetectionsOf(spawned) = {}

\* a frame in which two live tracks overlapped the same detection enough to
\* match it: one took it, the other stayed unmatched
C2_ContestedDetection ==
    /\ lastOp.op = "pass"
    /\ Len(lastOp.pass.matched) = 1
    /\ LET winner == lastOp.pass.matched[1].trackId
       IN \E id \in DOMAIN tracks \ {winner} :
             /\ id \notin TrackIdsOf(lastOp.pass.spawned)
             /\ FracGe(calculateIoU(tracks[id].bbox, tracks[winner].bbox),
                       minIoU)

\* C3: a track unmatched for more than maxDisappearedFrames consecutive
\* processed frames leaves the live set in the frame where its count of
\* misses first exceeds the maximum, no track with its id appears in any
\* later frame, and a match resets the count of misses to 0.
C3_ExpiredTracksGoForGood ==
    [][/\ \A id \in 1..(nextTrackId - 1) :
             id \notin DOMAIN tracks => id \notin DOMAIN tracks'
       /\ \A id \in DOMAIN tracks' :
             Missed(disappeared', id) <= maxDisappearedFrames
       /\ lastOp'.op = "pass" =>
             \A id \in DOMAIN tracks :
                IF id \in TrackIdsOf(lastOp'.pass.matched)
                THEN id \in DOMAIN tracks' /\ Missed(disappeared', id) = 0
                ELSE IF Missed(disappeared, id) + 1 > maxDisappearedFrames
                THEN /\ id \notin DOMAIN tracks'
                     /\ id \in Range(lastOp'.pass.gone)
                ELSE /\ id \in DOMAIN tracks'
                     /\ Missed(disappeared', id) = Missed(disappeared, id) + 1
      ]_vars

\* a frame that ended one track and matched another
C3_TrackRemoved ==
    /\ lastOp.pass.gone # <<>>
    /\ lastOp.pass.matched # <<>>
    /\ \A id \in Range(lastOp.pass.gone) : id \notin DOMAIN tracks

\* C4: track ids are unique and strictly increasing in creation order:
\* every unmatched detection creates exactly one new track, under an id
\* greater than every id issued before, ids of deleted tracks included, on
\* the path without live tracks and on the path of unmatched detections.
C4_FreshIncreasingIds ==
    [][LET spawned == lastOp'.pass.spawned
           matched == lastOp'.pass.matched
       IN /\ nextTrackId' = nextTrackId + Len(spawned)
          /\ \A k \in 1..Len(spawned) :
                LET id == spawned[k].trackId
                IN /\ id = nextTrackId + k - 1
                   /\ id \notin DOMAIN tracks
                   /\ id \in DOMAIN tracks'
                   /\ tracks'[id].id = id
          /\ DOMAIN tracks' \subseteq 1..(nextTrackId' - 1)
          /\ Cardinality(DetectionsOf(spawned)) = Len(spawned)
          /\ DetectionsOf(spawned)
               = (1..lastOp'.pass.detections) \ DetectionsOf(matched)
      ]_vars

\* a frame on the path of unmatched detections (a match and a new track)
\* after a track has been deleted
C4_SpawnBesideMatchAfterRemoval ==
    /\ lastOp.pass.spawned # <<>>
    /\ lastOp.pass.matched # <<>>
    /\ \E id \in 1..(nextTrackId - 1) : id \notin DOMAIN tracks

\* C5: every track's history holds at most historyLength entries; when an
\* append goes over the cap exactly the oldest entry is removed, the other
\* entries keep their order and the newest sample is last.
C5_HistoryBoundedFifo ==
    [][/\ \A id \in DOMAIN tracks' :
             Len(tracks'[id].history) \in 1..historyLength
       /\ \A id \in TrackIdsOf(lastOp'.pass.matched) :
             LET old == tracks[id].history
                 new == tracks'[id].history
                 kept == SubSeq(new, 1, Len(new) - 1)
             IN /\ new[Len(new)].timestamp = now'
                /\ new[Len(new)].bbox = tracks'[id].bbox
                /\ kept = IF Len(old) < historyLength THEN old ELSE Tail(old)
      ]_vars

\* an update that went over the cap and shifted the history
C5_OldestEvicted ==
    /\ lastOp.pass.shifted # <<>>
    /\ \A id \in Range(lastOp.pass.shifted) :
          Len(tracks[id].history) = historyLength

----------------------------------------------------------------------------
(* Properties of the boundaries, stated under SpecLines.  accepted holds,  *)
(* per (track, boundary) pair, the last event handed to onLineCrossed      *)
(* before a step; lastOp'.emitted are the events the step hands over.      *)

LineIds(ls) == {ls[i].id : i \in 1..Len(ls)}
NoCrossings == [in |-> 0, out |-> 0]
LastCentroid(track) == track.history[Len(track.history)].centroid
PrevCentroid(track) == track.history[Len(track.history) - 1].centroid

\* C1: for a boundary of either kind and a track, two accepted (counted
\* and emitted) crossings of the same (track, boundary) pair are at least
\* the cooldown window of 2000 ms apart.
C1_AcceptedCrossingsCooldownApart ==
    [][\A k \in 1..Len(lastOp'.emitted) :
          LET e == lastOp'.emitted[k]
              pair == <<e.personId, e.lineId>>
          IN pair \in DOMAIN accepted =>
                e.timestamp - accepted[pair].timestamp >= CooldownMs
      ]_vars

\* C6: for a (track, Area) pair the events alternate starting with "in":
\* no "in" while the track is recorded in peopleInside, no "out" unless it
\* is, and after an evaluation the track is in peopleInside exactly when
\* the evaluated containment was true.
C6_AreaEventsAlternate ==
    [][/\ \A k \in 1..Len(lastOp'.emitted), i \in 1..Len(lines) :
             LET e == lastOp'.emitted[k]
                 pair == <<e.personId, e.lineId>>
             IN (lines[i].id = e.lineId /\ lines[i].type = "area") =>
                  IF e.direction = "in"
                  THEN /\ e.personId \notin lines[i].peopleInside
                       /\ pair \in DOMAIN accepted =>
                             accepted[pair].direction = "out"
                  ELSE /\ e.personId \in lines[i].peopleInside
                       /\ pair \in DOMAIN accepted
                       /\ accepted[pair].direction = "in"
       /\ \A id \in Range(lastOp'.pass.evaluated), i \in 1..Len(lines') :
             lines'[i].type = "area" =>
                (id \in lines'[i].peopleInside
                   <=> AreaContains(lines'[i], LastCentroid(tracks'[id])))
      ]_vars

\* a track that entered an area has left it: the "out" event of the pair
C6_AreaLeft ==
    \E k \in 1..Len(lastOp.emitted), i \in 1..Len(lines) :
        /\ lines[i].id = lastOp.emitted[k].lineId
        /\ lines[i].type = "area"
        /\ lastOp.emitted[k].direction = "out"
        /\ lastOp.emitted[k].personId \notin lines[i].peopleInside

\* C7: after resetCounts, in one step, every boundary's counters are
\* {in: 0, out: 0}, the dedup map is empty and every area's peopleInside is
\* empty.
C7_ResetEmptiesEverything ==
    lastOp.op = "reset" =>
        /\ counts = [total |-> 0, in |-> 0, out |-> 0]
        /\ \A id \in DOMAIN lineCrossings : lineCrossings[id] = NoCrossings
        /\ crossedTracks = <<>>
        /\ \A i \in 1..Len(lines) : lines[i].peopleInside = {}

\* C8: resetCounts is idempotent: from any reachable state, applying it
\* twice in succession gives the counters, dedup map, peopleInside sets and
\* boundary list that applying it once gives.
C8_ResetIdempotent ==
    /\ resetCounts(resetCounts(LineState)) = resetCounts(LineState)
    /\ lastOp.op = "reset" => resetCounts(LineState) = LineState

\* the state after a reset that followed a crossing of a boundary still
\* registered, with a track inside an area
C8_ResetAfterCrossings ==
    /\ lastOp.op = "reset"
    /\ \E pair \in DOMAIN accepted : pair[2] \in LineIds(lines)
    /\ \E i \in 1..Len(lines) : lines[i].peopleInside # {}

\* C9: after removeLine(b) and the adding of a boundary of the same
\* geometry, the new boundary has an id never used before and counters
\* {in: 0, out: 0}; no dedup record keyed by b and no peopleInside of b
\* remains; a track that crossed b inside the cooldown window is counted on
\* its first crossing of the new boundary.
C9_RemovedBoundaryLeavesNothing ==
    [][/\ lastOp'.op = "addLine" =>
             LET new == lines'[Len(lines')]
             IN /\ new.id = lastOp'.arg
                /\ new.id = nextLineId
                /\ new.id \notin LineIds(lines)
                /\ \A pair \in DOMAIN accepted : pair[2] # new.id
                /\ lineCrossings'[new.id] = NoCrossings
                /\ new.peopleInside = {}
                /\ \A p \in 1..MaxTrackId :
                      CrossingKey(p, new.id) \notin DOMAIN crossedTracks'
       /\ nextLineId' >= nextLineId
       /\ LineIds(lines') \subseteq 1..(nextLineId' - 1)
       /\ \A pair \in DOMAIN accepted' : pair[2] < nextLineId'
       /\ lastOp'.op = "removeLine" =>
             /\ lastOp'.arg \notin LineIds(lines')
             /\ lastOp'.arg \notin DOMAIN lineCrossings'
       /\ \A key \in DOMAIN crossedTracks' :
             \E p \in 1..MaxTrackId, l \in LineIds(lines') :
                key = CrossingKey(p, l)
       /\ \A p \in Range(lastOp'.pass.evaluated), i \in 1..Len(lines') :
             (/\ lines'[i].type = "line"
              /\ lineIntersection(PrevCentroid(tracks'[p]),
                                  LastCentroid(tracks'[p]),
                                  lines'[i].start, lines'[i].end)
              /\ <<p, lines'[i].id>> \notin DOMAIN accepted)
             => \E k \in 1..Len(lastOp'.emitted) :
                   /\ lastOp'.emitted[k].personId = p
                   /\ lastOp'.emitted[k].lineId = lines'[i].id
      ]_vars

\* a track counted on a line drawn in place of a removed line that it
\* crossed less than a cooldown window ago
C9_CountedOnReplacement ==
    \E k \in 1..Len(lastOp.emitted), i \in 1..Len(lines) :
        LET e == lastOp.emitted[k]
        IN /\ lines[i].id = e.lineId
           /\ lines[i].type = "line"
           /\ \E b \in 1..(e.lineId - 1) :
                 /\ b \notin LineIds(lines)
                 /\ <<e.personId, b>> \in DOMAIN accepted
                 /\ accepted[<<e.personId, b>>].lineName = lines[i].name
                 /\ now - accepted[<<e.personId, b>>].timestamp < CooldownMs

----------------------------------------------------------------------------
(* Properties of the application, stated under Spec *)

\* C10: when stopCounting is called while a detector call started by a
\* frame pass is pending, the call's later resolution is a no-op: no track
\* is created, updated or aged, no crossing is counted or emitted and no
\* further frame callback is scheduled; and the stop cancels a pending
\* next-frame callback.
C10_StopSilencesPendingDetection ==
    [][/\ (~isRunning /\ detecting' < detecting) =>
             /\ UNCHANGED <<tracks, disappeared, nextTrackId, lines,
                            lineCrossings, crossedTracks, counts, accepted>>
             /\ lastOp'.emitted = <<>>
             /\ UNCHANGED <<rafPending, animationId, nextRafId>>
       /\ (isRunning /\ ~isRunning' /\ animationId # 0) =>
             animationId \notin rafPending'
      ]_vars

\* C11: at every moment at most one frame-processing pass is in progress
\* and at most one next-frame callback is pending, under every interleaving
\* of setMode('setup'), setMode('counting'), startCounting and stopCounting
\* with the pending awaits of model loading, session creation and the
\* detector call.
C11_OnePassOneCallback ==
    /\ detecting <= 1
    /\ Cardinality(rafPending) <= 1

\* the events of a step that are about boundary id, and those of them in
\* direction d or about track p
EventsOn(emitted, id) == {k \in 1..Len(emitted) : emitted[k].lineId = id}
EventsOnIn(emitted, id, d) ==
    {k \in EventsOn(emitted, id) : emitted[k].direction = d}
EventsOnBy(emitted, id, p) ==
    {k \in EventsOn(emitted, id) : emitted[k].personId = p}

\* a pass hands track p to the crossing check and its last movement
\* intersects the line at index i
CrossesLine(trks, ls, p, i) ==
    /\ ls[i].type = "line"
    /\ lineIntersection(PrevCentroid(trks[p]), LastCentroid(trks[p]),
                        ls[i].start, ls[i].end)

\* C12: a line crossing of a (track, line) pair that arrives less than
\* 2000 ms after the pair's last accepted crossing is dropped silently: no
\* event is emitted for the pair, the pair's dedup record keeps its
\* timestamp and direction, and the line's counters move only by the events
\* other tracks caused in the same pass (not at all when the pass emitted
\* nothing, as when the crossing of Scenario A is repeated in the window).
C12_CrossingInCooldownDropped ==
    [][lastOp'.op = "pass" =>
        \A p \in Range(lastOp'.pass.evaluated), i \in 1..Len(lines) :
           LET id == lines[i].id
               key == CrossingKey(p, id)
           IN (/\ CrossesLine(tracks', lines, p, i)
               /\ <<p, id>> \in DOMAIN accepted
               /\ now' - accepted[<<p, id>>].timestamp < CooldownMs)
              => /\ EventsOnBy(lastOp'.emitted, id, p) = {}
                 /\ key \in DOMAIN crossedTracks
                 /\ crossedTracks'[key] = crossedTracks[key]
                 /\ accepted'[<<p, id>>] = accepted[<<p, id>>]
                 /\ \A d \in {"in", "out"} :
                       lineCrossings'[id][d] = lineCrossings[id][d]
                          + Cardinality(EventsOnIn(lastOp'.emitted, id, d))
                 /\ lastOp'.emitted = <<>>
                       => lineCrossings' = lineCrossings /\ counts' = counts]_vars

\* the crossing of Scenario A, (50,50) to (150,50), made again 1000 ms
\* after it was counted 'in', has left the counters at {in:1, out:0}
C12_RepeatDropped ==
    /\ lastOp.op = "pass"
    /\ lastOp.emitted = <<>>
    /\ \E p \in Range(lastOp.pass.evaluated), i \in 1..Len(lines) :
          /\ CrossesLine(tracks, lines, p, i)
          /\ PrevCentroid(tracks[p]) = <<50, 50>>
          /\ LastCentroid(tracks[p]) = <<150, 50>>
          /\ <<p, lines[i].id>> \in DOMAIN accepted
          /\ accepted[<<p, lines[i].id>>].direction = "in"
          /\ now - accepted[<<p, lines[i].id>>].timestamp = TickMs
          /\ crossedTracks[CrossingKey(p, lines[i].id)].timestamp
                = accepted[<<p, lines[i].id>>].timestamp
          /\ lineCrossings[lines[i].id] = [in |-> 1, out |-> 0]

\* C13: a line crossing of a (track, line) pair that arrives 2000 ms or
\* more after the pair's last accepted crossing is accepted whatever its
\* direction: exactly one event is emitted for the pair, the counter of the
\* event's direction goes up by it, and the pair's dedup record becomes the
\* event's timestamp and direction.
C13_CrossingAfterCooldownAccepted ==
    [][lastOp'.op = "pass" =>
        \A p \in Range(lastOp'.pass.evaluated), i \in 1..Len(lines) :
           LET id == lines[i].id
               key == CrossingKey(p, id)
               mine == EventsOnBy(lastOp'.emitted, id, p)
           IN (/\ CrossesLine(tracks', lines, p, i)
               /\ <<p, id>> \in DOMAIN accepted
               /\ now' - accepted[<<p, id>>].timestamp >= CooldownMs)
              => /\ Cardinality(mine) = 1
                 /\ \A k \in mine :
                       /\ lastOp'.emitted[k].timestamp = now'
                       /\ crossedTracks'[key] =
                             [timestamp |-> now',
                              direction |-> lastOp'.emitted[k].direction]
                       /\ accepted'[<<p, id>>] = lastOp'.emitted[k]
                 /\ \A d \in {"in", "out"} :
                       lineCrossings'[id][d] = lineCrossings[id][d]
                          + Cardinality(EventsOnIn(lastOp'.emitted, id, d))]_vars

\* a track counted 'in' at time 0 went back over the line 2000 ms later
\* and was counted 'out'
C13_OppositeAccepted ==
    /\ lastOp.op = "pass"
    /\ Len(lastOp.emitted) = 1
    /\ lastOp.emitted[1].direction = "out"
    /\ lastOp.emitted[1].timestamp = CooldownMs
    /\ \E i \in 1..Len(lines) :
          /\ lines[i].id = lastOp.emitted[1].lineId
          /\ CrossesLine(tracks, lines, lastOp.emitted[1].personId, i)
          /\ lineCrossings[lines[i].id] = [in |-> 1, out |-> 1]
          /\ crossedTracks[CrossingKey(lastOp.emitted[1].personId, lines[i].id)]
                = [timestamp |-> CooldownMs, direction |-> "out"]

\* C14: for a vertical line at x = 100, drawn from either end, and a
\* matched track whose last two centroids are (50,50) then (150,50), not
\* counted on the line before, the crossing check emits exactly one event
\* for the track, its direction is 'in', and the line's counters become
\* {in:1, out:0}.
C14_LeftToRightIsIn ==
    [][lastOp'.op = "pass" =>
        \A p \in Range(lastOp'.pass.evaluated), i \in 1..Len(lines) :
           LET id == lines[i].id
               mine == EventsOnBy(lastOp'.emitted, id, p)
           IN (/\ lines[i].type = "line"
               /\ lines[i].start[1] = 100 /\ lines[i].end[1] = 100
               /\ PrevCentroid(tracks'[p]) = <<50, 50>>
               /\ LastCentroid(tracks'[p]) = <<150, 50>>
               /\ <<p, id>> \notin DOMAIN accepted
               /\ lineCrossings[id] = NoCrossings)
              => /\ Cardinality(mine) = 1
                 /\ \A k \in mine : lastOp'.emitted[k].direction = "in"
                 /\ lineCrossings'[id] = [in |-> 1, out |-> 0]]_vars

\* C15: for the rectangular area with corners (0,0)-(100,100) and a track
\* evaluated at (150,150), at (50,50) and at (150,150) again: the evaluation
\* outside by a track that is not inside emits nothing; the entry emits
\* exactly one event for the track, an 'in', and puts the track in the
\* area's peopleInside; the exit emits exactly one, an 'out', and takes the
\* track out of peopleInside; the counters move by the events and count as
\* many more 'in' than 'out' as there are tracks inside, so they are
\* {in:1, out:1} with nobody inside after the one track's visit.
C15_AreaVisitCountedOnceEachWay ==
    [][lastOp'.op = "pass" =>
        \A i \in 1..Len(lines) :
           lines[i].type = "area" =>
              LET id == lines[i].id
                  in == lines[i].peopleInside
                  in1 == lines'[i].peopleInside
              IN /\ \A p \in Range(lastOp'.pass.evaluated) :
                       LET mine == EventsOnBy(lastOp'.emitted, id, p)
                           at == LastCentroid(tracks'[p])
                       IN /\ (at = <<150, 150>> /\ p \notin in)
                             => mine = {} /\ p \notin in1
                          /\ (at = <<50, 50>> /\ p \notin in)
                             => /\ Cardinality(mine) = 1
                                /\ \A k \in mine :
                                      lastOp'.emitted[k].direction = "in"
                                /\ p \in in1
                          /\ (at = <<150, 150>> /\ p \in in)
                             => /\ Cardinality(mine) = 1
                                /\ \A k \in mine :
                                      lastOp'.emitted[k].direction = "out"
                                /\ p \notin in1
                          /\ (at = <<50, 50>> /\ p \in in)
                             => mine = {} /\ p \in in1
                 /\ \A d \in {"in", "out"} :
                       lineCrossings'[id][d] = lineCrossings[id][d]
                          + Cardinality(EventsOnIn(lastOp'.emitted, id, d))
                 /\ lineCrossings'[id]["in"] - lineCrossings'[id]["out"]
                       = Cardinality(in1)]_vars

\* the track has just left the area it had entered: this pass emitted the
\* one 'out', the counters are {in:1, out:1} and nobody is inside
C15_VisitOver ==
    /\ lastOp.op = "pass"
    /\ Len(lastOp.emitted) = 1
    /\ lastOp.emitted[1].direction = "out"
    /\ \E i \in 1..Len(lines) :
          /\ lines[i].type = "area"
          /\ lines[i].start = <<0, 0>> /\ lines[i].end = <<100, 100>>
          /\ lines[i].id = lastOp.emitted[1].lineId
          /\ LastCentroid(tracks[lastOp.emitted[1].personId]) = <<150, 150>>
          /\ PrevCentroid(tracks[lastOp.emitted[1].personId]) = <<50, 50>>
          /\ lineCrossings[lines[i].id] = [in |-> 1, out |-> 1]
          /\ lines[i].peopleInside = {}

\* a prediction that passes the filter of detectPeople
Strong(pred) == pred.class = "person" /\ pred.score >= confidenceThreshold

\* the tracks a pass matched or created
Touched(pass) ==
    {pass.matched[k].trackId : k \in 1..Len(pass.matched)}
       \cup {pass.spawned[k].trackId : k \in 1..Len(pass.spawned)}

C17_NoTracksEveryDetectionSpawns ==
    [][(/\ lastOp'.op = "pass"
        /\ DOMAIN tracks = {}
        /\ lastOp'.pass.detections >= 1)
       => LET n == lastOp'.pass.detections
              D == SelectSeq(lastOp'.arg, Strong)
          IN /\ n = Len(D)
             /\ DOMAIN tracks' = nextTrackId..(nextTrackId + n - 1)
             /\ Cardinality(DOMAIN tracks') = n
             /\ nextTrackId' = nextTrackId + n
             /\ \A k \in 1..n :
                   LET track == tracks'[nextTrackId + k - 1]
                   IN /\ track.id = nextTrackId + k - 1
                      /\ track.bbox = D[k].bbox
                      /\ Len(track.history) = 1
                      /\ track.history[1].bbox = D[k].bbox
                      /\ track.history[1].score = D[k].score
                      /\ track.history[1].timestamp = now']_vars

\* the first track is gone and a frame with two different detections has
\* just created tracks 2 and 3, in that order
C17_TwoSpawnedFromNothing ==
    /\ lastOp.op = "pass"
    /\ Len(lastOp.arg) = 2
    /\ lastOp.arg[1].bbox # lastOp.arg[2].bbox
    /\ lastOp.pass.matched = <<>>
    /\ DOMAIN tracks = {2, 3}
    /\ tracks[2].bbox = lastOp.arg[1].bbox
    /\ tracks[3].bbox = lastOp.arg[2].bbox
    /\ Len(tracks[2].history) = 1 /\ Len(tracks[3].history) = 1

\* C18: a frame whose detector call fails is handled as a frame with zero
\* detections and the failure goes no further: every live track's count of
\* missed frames goes up by exactly 1, a track whose count then exceeds
\* maxDisappearedFrames is removed and every other track stays exactly as
\* it was, no track is created, and the tracker is as ready for the next
\* frame as before.
C18_DetectorFailureIsEmptyFrame ==
    [][lastOp'.op = "detectFailed" =>
        /\ lastOp'.pass.detections = 0
        /\ lastOp'.pass.matched = <<>> /\ lastOp'.pass.spawned = <<>>
        /\ lastOp'.emitted = <<>>
        /\ nextTrackId' = nextTrackId
        /\ DOMAIN tracks' \subseteq DOMAIN tracks
        /\ \A id \in DOMAIN tracks :
              LET misses == Missed(disappeared, id) + 1
              IN IF misses > maxDisappearedFrames
                 THEN id \notin DOMAIN tracks' /\ id \notin DOMAIN disappeared'
                 ELSE /\ id \in DOMAIN tracks'
                      /\ tracks'[id] = tracks[id]
                      /\ disappeared'[id] = misses
        /\ isModelLoaded' = isModelLoaded /\ useSynthetic' = useSynthetic
        /\ isModelLoaded']_vars

\* the detector has just failed over two live tracks, one of which had
\* missed a frame already: that one is gone, the other has missed one
C18_FailedOverTwoTracks ==
    /\ lastOp.op = "detectFailed"
    /\ Len(lastOp.pass.gone) = 1
    /\ \E id \in DOMAIN tracks :
          /\ disappeared[id] = 1
          /\ Len(tracks[id].history) = 2

\* a zero-length line, a polygon of fewer than 3 vertices or a rectangle of
\* no width or no height
Degenerate(boundary) ==
    IF boundary.type = "line" THEN boundary.start = boundary.end
    ELSE IF boundary.points # <<>> THEN Len(boundary.points) < 3
    ELSE \/ boundary.start[1] = boundary.end[1]
         \/ boundary.start[2] = boundary.end[2]

\* C19: no boundary with degenerate geometry is ever in the registry,
\* whether it was requested through addLine directly or drawn with the
\* mouse or by touch, in line or area mode.
C19_NoDegenerateBoundary ==
    \A i \in 1..Len(lines) : ~Degenerate(lines[i])

\* C20: constructing the tracker with a negative confidenceThreshold,
\* maxDisappearedFrames or historyLength is rejected at construction: no
\* tracker holds a negative threshold or limit.
C20_NoNegativeConfiguration ==
    /\ config.confidenceThreshold >= 0
    /\ config.maxDisappearedFrames >= 0
    /\ config.historyLength >= 0

RECURSIVE CountedFrom(_, _, _, _)
CountedFrom(ls, crossings, d, i) ==
    IF i > Len(ls) THEN 0
    ELSE crossings[ls[i].id][d] + CountedFrom(ls, crossings, d, i + 1)

\* C22: every accepted crossing increments exactly one counter, that of
\* its boundary and direction, by exactly 1 and emits exactly one event
\* with that boundary id, track id and direction: in a pass each counter
\* goes up by the number of events emitted for its boundary and direction,
\* each event is about a boundary of the registry and a track the pass
\* evaluated, and the listener is called once per event; hence, as long as
\* no boundary was removed, the counters of all boundaries add up to the
\* events emitted since the start or the last reset.
C22_CountersMatchEvents ==
    [][/\ lastOp'.op = "pass" =>
            /\ DOMAIN lineCrossings' = DOMAIN lineCrossings
            /\ \A id \in DOMAIN lineCrossings, d \in {"in", "out"} :
                  lineCrossings'[id][d] = lineCrossings[id][d]
                     + Cardinality(EventsOnIn(lastOp'.emitted, id, d))
            /\ \A k \in 1..Len(lastOp'.emitted) :
                  LET e == lastOp'.emitted[k]
                  IN /\ e.lineId \in LineIds(lines)
                     /\ e.personId \in Range(lastOp'.pass.evaluated)
                     /\ e.direction \in {"in", "out"}
                     /\ e.timestamp = now'
            /\ \A d \in {"in", "out"} :
                  counts'[d] = counts[d]
                     + Cardinality({k \in 1..Len(lastOp'.emitted) :
                                       lastOp'.emitted[k].direction = d})
       /\ lastOp'.op # "pass" => lastOp'.emitted = <<>>
       /\ nextLineId' = Len(lines') + 1 =>
            \A d \in {"in", "out"} :
               counts'[d] = CountedFrom(lines', lineCrossings', d, 1)]_vars

\* a track has entered the only boundary ever drawn and has just left it:
\* two events so far, and the boundary's counters are {in:1, out:1}
C22_TwoEventsTwoCounts ==
    /\ lastOp.op = "pass"
    /\ Len(lastOp.emitted) = 1
    /\ lastOp.emitted[1].direction = "out"
    /\ nextLineId = 2 /\ Len(lines) = 1
    /\ lineCrossings[lines[1].id] = [in |-> 1, out |-> 1]
    /\ counts = [total |-> 2, in |-> 1, out |-> 1]

\* C23: each counter of a boundary is a non-negative integer, and from one
\* state to the next it does not decrease unless the step is a reset; a
\* boundary's counters go away only when the boundary is removed or the
\* registry is cleared.
C23_CountersNeverDecrease ==
    [][/\ \A id \in DOMAIN lineCrossings', d \in {"in", "out"} :
             lineCrossings'[id][d] \in Nat
       /\ \A id \in DOMAIN lineCrossings :
             IF id \in DOMAIN lineCrossings'
             THEN lastOp'.op # "reset" =>
                     /\ lineCrossings'[id]["in"] >= lineCrossings[id]["in"]
                     /\ lineCrossings'[id]["out"] >= lineCrossings[id]["out"]
             ELSE \/ lastOp'.op = "removeLine" /\ lastOp'.arg = id
                  \/ lastOp'.op = "clearLines"]_vars

\* a boundary has counted the same track in, out and in again
C23_CountedTwice ==
    /\ lastOp.op = "pass"
    /\ Len(lastOp.emitted) = 1
    /\ \E id \in DOMAIN lineCrossings :
          lineCrossings[id] = [in |-> 2, out |-> 1]

\* C24: removal of a boundary and crossing evaluation do not interleave:
\* in every state, also after a removal made while a detector call was
\* pending, the counters have entries for exactly the boundaries of the
\* registry, and the events an operation emitted are all about boundaries
\* of the registry, whose ids are never given out again; so once
\* removeLine(b) has returned there is no entry for b and no later pass
\* counts or emits a crossing of b.
C24_RemovedBoundaryIsNeverEvaluated ==
    /\ DOMAIN lineCrossings = LineIds(lines)
    /\ \A k \in 1..Len(lastOp.emitted) :
          lastOp.emitted[k].lineId \in LineIds(lines)
    /\ lastOp.op = "removeLine" =>
          /\ lastOp.arg \notin LineIds(lines)
          /\ lastOp.arg \notin DOMAIN lineCrossings
    /\ \A id \in LineIds(lines) : id < nextLineId

\* the only boundary was removed, and the pass that was waiting for the
\* detector has now moved a track over the place of the line without an
\* event
C24_PassAfterRemoval ==
    /\ lastOp.op = "detectDone"
    /\ lines = <<>> /\ nextLineId > 1
    /\ lineCrossings = <<>>
    /\ lastOp.emitted = <<>>
    /\ \E p \in Range(lastOp.pass.evaluated) :
          lineIntersection(PrevCentroid(tracks[p]), LastCentroid(tracks[p]),
                           VLine.start, VLine.end)

\* the reference association, said without a loop.  D are the detections,
\* trks the live tracks before the pass and matched the pairs the pass
\* made.  taken(t) are the detections of the tracks below t.
IouBelow(a, b) == a[1] * b[2] < b[1] * a[2]
GreedyReference(trks, D, matched) ==
    LET iou(t, j) == calculateIoU(trks[t].bbox, D[j].bbox)
        taken(t) == {matched[k].detectionIdx :
                        k \in {k \in 1..Len(matched) : matched[k].trackId < t}}
        free(t) == (1..Len(D)) \ taken(t)
        \* j is the best free detection for t, the lowest index on a tie
        best(t, j) ==
            /\ j \in free(t)
            /\ \A o \in free(t) :
                  /\ ~IouBelow(iou(t, j), iou(t, o))
                  /\ o < j => IouBelow(iou(t, o), iou(t, j))
    IN /\ \A k \in 1..Len(matched) :
             /\ matched[k].trackId \in DOMAIN trks
             /\ matched[k].detectionIdx \in 1..Len(D)
             /\ k > 1 => matched[k - 1].trackId < matched[k].trackId
       /\ \A t \in DOMAIN trks :
             LET mine == {k \in 1..Len(matched) : matched[k].trackId = t}
             IN IF \E j \in free(t) :
                      best(t, j) /\ ~IouBelow(iou(t, j), minIoU)
                THEN /\ Cardinality(mine) = 1
                     /\ \A k \in mine : best(t, matched[k].detectionIdx)
                ELSE mine = {}

C26_UnmatchedTrackStaysAsGhost ==
    [][lastOp'.op = "pass" =>
        \A id \in DOMAIN tracks \ TrackIdsOf(lastOp'.pass.matched) :
           LET misses ==
                  (IF id \in DOMAIN disappeared THEN disappeared[id] ELSE 0)
                     + 1
           IN misses <= maxDisappearedFrames
              => /\ id \in DOMAIN tracks'
                 /\ tracks'[id] = tracks[id]
                 /\ id \in DOMAIN disappeared'
                 /\ disappeared'[id] = misses]_vars

\* a frame with a detection that matched one track and left another
\* unmatched: that one is still live and has missed one frame
C26_GhostBesideMatch ==
    /\ lastOp.op = "pass"
    /\ lastOp.pass.detections >= 1
    /\ Len(lastOp.pass.matched) = 1
    /\ lastOp.pass.gone = <<>>
    /\ \E id \in DOMAIN tracks :
          /\ id \notin TrackIdsOf(lastOp.pass.matched)
          /\ id \notin TrackIdsOf(lastOp.pass.spawned)
          /\ disappeared[id] = 1

----------------------------------------------------------------------------
(* Properties of the crossing geometry, stated under SpecGeometry *)

\* twice the signed area of the triangle a, b, c
Turn(a, b, c) ==
    (b[1] - a[1]) * (c[2] - a[2]) - (b[2] - a[2]) * (c[1] - a[1])

\* the segments a-b and c-d are not parallel and have a point in common
SegmentsMeet(a, b, c, d) ==
    /\ (b[1] - a[1]) * (d[2] - c[2]) # (b[2] - a[2]) * (d[1] - c[1])
    /\ Turn(c, d, a) * Turn(c, d, b) <= 0
    /\ Turn(a, b, c) * Turn(a, b, d) <= 0

\* the last movement of track p in trks meets the line
StepMeets(trks, p, line) ==
    SegmentsMeet(PrevCentroid(trks[p]), LastCentroid(trks[p]),
                 line.start, line.end)

\* C27: a track step from the previous to the current centroid produces a
\* line crossing only if the step and the line are not parallel and the
\* intersection lies within both segments; a step parallel to or collinear
\* with the line, a zero-length step, or a step meeting only the line's
\* extension beyond its ends produces no event and changes neither the
\* line's counters nor the pair's dedup record.
C27_OnlyIntersectingStepsCross ==
    [][lastOp'.op = "pass" =>
        /\ \A k \in 1..Len(lastOp'.emitted), i \in 1..Len(lines) :
              LET e == lastOp'.emitted[k]
              IN (lines[i].type = "line" /\ lines[i].id = e.lineId)
                 => /\ e.personId \in Range(lastOp'.pass.evaluated)
                    /\ StepMeets(tracks', e.personId, lines[i])
        /\ \A p \in Range(lastOp'.pass.evaluated), i \in 1..Len(lines) :
              LET id == lines[i].id
                  key == CrossingKey(p, id)
              IN (lines[i].type = "line" /\ ~StepMeets(tracks', p, lines[i]))
                 => /\ EventsOnBy(lastOp'.emitted, id, p) = {}
                    /\ (key \in DOMAIN crossedTracks')
                          = (key \in DOMAIN crossedTracks)
                    /\ key \in DOMAIN crossedTracks
                          => crossedTracks'[key] = crossedTracks[key]
        /\ \A i \in 1..Len(lines) :
              (/\ lines[i].type = "line"
               /\ \A p \in Range(lastOp'.pass.evaluated) :
                     ~StepMeets(tracks', p, lines[i]))
              => lineCrossings'[lines[i].id] = lineCrossings[lines[i].id]
       ]_vars

\* an evaluated step that straddles the line's extension, passes beyond
\* the line's end and gives no event
C27_StepPastTheEnd ==
    /\ lastOp.op = "pass"
    /\ lastOp.emitted = <<>>
    /\ Len(lines) = 1
    /\ \E p \in Range(lastOp.pass.evaluated) :
          LET a == PrevCentroid(tracks[p])
              b == LastCentroid(tracks[p])
          IN /\ a # b
             /\ Turn(lines[1].start, lines[1].end, a)
                   * Turn(lines[1].start, lines[1].end, b) < 0
             /\ ~StepMeets(tracks, p, lines[1])

\* the side of the line from start to end that the point p lies on:
\* (x2-x1)*(py-y1) - (y2-y1)*(px-x1)
SideOf(line, p) == Turn(line.start, line.end, p)

\* the direction the sign rule gives the last movement of track p
SignRule(trks, p, line) ==
    IF SideOf(line, PrevCentroid(trks[p])) <= 0
          /\ SideOf(line, LastCentroid(trks[p])) > 0
    THEN "in" ELSE "out"

\* C28: for every intersecting step that is counted, the direction is 'in'
\* exactly when side(prev) <= 0 and side(curr) > 0, with
\* side(p) = (x2-x1)*(py-y1) - (y2-y1)*(px-x1) for the line from (x1,y1) to
\* (x2,y2), and 'out' in every other case, whether the line is classified
\* vertical or horizontal; the dedup record and the counters take the same
\* direction.
C28_DirectionBySignOfSide ==
    [][lastOp'.op = "pass" =>
        \A k \in 1..Len(lastOp'.emitted), i \in 1..Len(lines) :
           LET e == lastOp'.emitted[k]
               d == SignRule(tracks', e.personId, lines[i])
               key == CrossingKey(e.personId, e.lineId)
           IN (lines[i].type = "line" /\ lines[i].id = e.lineId)
              => /\ e.direction = d
                 /\ key \in DOMAIN crossedTracks'
                 /\ crossedTracks'[key].direction = d
                 /\ Cardinality(EventsOn(lastOp'.emitted, e.lineId)) = 1
                       => lineCrossings'[e.lineId][d]
                             = lineCrossings[e.lineId][d] + 1
       ]_vars

\* a line classified horizontal, a step that starts exactly on it and ends
\* on its positive side, counted 'in'
C28_InFromOnTheLine ==
    /\ lastOp.op = "pass"
    /\ Len(lines) = 1
    /\ Abs(lines[1].end[1] - lines[1].start[1])
          >= Abs(lines[1].end[2] - lines[1].start[2])
    /\ \E k \in 1..Len(lastOp.emitted) :
          LET e == lastOp.emitted[k]
          IN /\ e.lineId = lines[1].id
             /\ e.direction = "in"
             /\ SideOf(lines[1], PrevCentroid(tracks[e.personId])) = 0
             /\ SideOf(lines[1], LastCentroid(tracks[e.personId])) > 0

\* the direction the crossing check computes for the last movement of
\* track p against a line
DirectionOf(trks, p, line) ==
    determineLineCrossingDirection(PrevCentroid(trks[p]), LastCentroid(trks[p]),
                                   line.start, line.end)

\* C29: reversing a line's ends with the direction button inverts the
\* classification of every crossing: for every track step that intersects
\* the line, steps that start or end exactly on the line included, the
\* direction computed after the swap is the opposite of the direction
\* computed before it.
C29_SwapInvertsDirection ==
    [][lastOp'.op = "swapDirection" =>
        \A i \in 1..Len(lines), p \in DOMAIN tracks :
           (/\ lines[i].id = lastOp'.arg
            /\ lines[i].type = "line"
            /\ Len(tracks[p].history) >= 2
            /\ lineIntersection(PrevCentroid(tracks[p]), LastCentroid(tracks[p]),
                                lines[i].start, lines[i].end))
           => DirectionOf(tracks, p, lines'[i]) # DirectionOf(tracks, p, lines[i])
       ]_vars

----------------------------------------------------------------------------
(* Properties of area containment, stated under SpecAreaEdge *)

\* the smallest and largest coordinates of an area, from its two corners
\* or from its vertices
AreaXs(area) ==
    IF area.points # <<>>
    THEN {area.points[k][1] : k \in 1..Len(area.points)}
    ELSE {area.start[1], area.end[1]}
AreaYs(area) ==
    IF area.points # <<>>
    THEN {area.points[k][2] : k \in 1..Len(area.points)}
    ELSE {area.start[2], area.end[2]}
Least(S) == CHOOSE x \in S : \A y \in S : x <= y
Greatest(S) == CHOOSE x \in S : \A y \in S : x >= y

\* the four corners of the area's bounding box, in drawing order
FourCorners(area) ==
    <<<<Least(AreaXs(area)), Least(AreaYs(area))>>,
      <<Greatest(AreaXs(area)), Least(AreaYs(area))>>,
      <<Greatest(AreaXs(area)), Greatest(AreaYs(area))>>,
      <<Least(AreaXs(area)), Greatest(AreaYs(area))>>>>

\* the area is an axis-aligned rectangle: given by two corners, or a
\* polygon on the four corners of its bounding box
IsRectangle(area) ==
    \/ area.points = <<>>
    \/ /\ Len(area.points) = 4
       /\ Range(area.points) = Range(FourCorners(area))

\* the direct bounding-box test, edges included
InBoundingBox(area, pos) ==
    /\ Least(AreaXs(area)) <= pos[1] /\ pos[1] <= Greatest(AreaXs(area))
    /\ Least(AreaYs(area)) <= pos[2] /\ pos[2] <= Greatest(AreaYs(area))

\* C30: for an axis-aligned rectangular area, the direct bounding-box
\* containment test gives the same result as the odd-crossing ray-casting
\* test on the rectangle's four corners, for every point, points on the
\* rectangle's edges and corners included: whichever of the two tests the
\* crossing check applies to a track's centroid, the track is inside the
\* area afterwards exactly when the other test says so too.
C30_BoundingBoxAgreesWithRayCasting ==
    [][lastOp'.op = "pass" =>
        \A i \in 1..Len(lines), p \in Range(lastOp'.pass.evaluated) :
           (lines[i].type = "area" /\ IsRectangle(lines[i]))
           => LET at == LastCentroid(tracks'[p])
                  inside == p \in lines'[i].peopleInside
              IN /\ inside = InBoundingBox(lines[i], at)
                 /\ inside = isPointInPolygon(at, FourCorners(lines[i]))
       ]_vars

----------------------------------------------------------------------------
(* Properties of areas between transitions, stated under SpecCrossArea *)

\* the pass evaluates track p where its membership of the area at index i
\* already says it is
Settled(ls, trks, p, i) ==
    AreaContains(ls[i], LastCentroid(trks[p])) = (p \in ls[i].peopleInside)

\* C31: when a track's evaluated containment in an area equals its
\* recorded membership (inside and already in peopleInside, or outside and
\* not in it), the evaluation emits no event for the pair and leaves the
\* track's membership as it was; when this holds of every track evaluated,
\* the area's counters and its peopleInside are unchanged.
C31_NoTransitionNoEffect ==
    [][lastOp'.op = "pass" =>
        \A i \in 1..Len(lines) :
           lines[i].type = "area" =>
              /\ \A p \in Range(lastOp'.pass.evaluated) :
                    Settled(lines, tracks', p, i)
                    => /\ EventsOnBy(lastOp'.emitted, lines[i].id, p) = {}
                       /\ (p \in lines'[i].peopleInside)
                             = (p \in lines[i].peopleInside)
              /\ (\A p \in Range(lastOp'.pass.evaluated) :
                     Settled(lines, tracks', p, i))
                 => /\ lineCrossings'[lines[i].id] = lineCrossings[lines[i].id]
                    /\ lines'[i].peopleInside = lines[i].peopleInside
                    /\ EventsOn(lastOp'.emitted, lines[i].id) = {}
       ]_vars

\* a track that was inside the area is evaluated inside it again, and a
\* pass with nothing to report: the counters stand at the one entry
C31_StayedInside ==
    /\ lastOp.op = "pass"
    /\ lastOp.emitted = <<>>
    /\ \E i \in 1..Len(lines), p \in Range(lastOp.pass.evaluated) :
          /\ lines[i].type = "area"
          /\ p \in lines[i].peopleInside
          /\ AreaContains(lines[i], LastCentroid(tracks[p]))
          /\ AreaContains(lines[i], PrevCentroid(tracks[p]))
          /\ lineCrossings[lines[i].id] = [in |-> 1, out |-> 0]

----------------------------------------------------------------------------
(* Properties of the frame stride, stated under SpecLoop *)

\* the operations that can run the application's processFrame
FrameOps == {"frame", "setModeCounting", "initializeDone", "sessionDone"}

\* C32: the skipped-frame policy is applied consistently: on every frame
\* tick whose frame count is not a multiple of detectionInterval the
\* detector is not called, no pass runs, and the tracks with their
\* histories, the miss counts, the next track id and all counters are
\* unchanged, the next tick being scheduled; so tracks and miss counts move
\* only on sampled frames, in the tick itself or when its detector call
\* settles.
C32_SkippedFramesChangeNothing ==
    [][/\ (lastOp'.op \in FrameOps /\ frameCount' % detectionInterval # 0)
          => /\ detecting' = detecting
             /\ lastOp'.pass = NoPass
             /\ lastOp'.emitted = <<>>
             /\ tracks' = tracks
             /\ disappeared' = disappeared
             /\ nextTrackId' = nextTrackId
             /\ lineCrossings' = lineCrossings
             /\ crossedTracks' = crossedTracks
             /\ counts' = counts
       /\ (lastOp'.op = "frame" /\ frameCount' % detectionInterval # 0)
          => /\ frameCount' = frameCount + 1
             /\ animationId' \in rafPending' \ rafPending
       /\ (tracks' # tracks \/ disappeared' # disappeared
              \/ nextTrackId' # nextTrackId)
          => \/ lastOp'.op \in {"detectDone", "detectFailed"}
             \/ /\ lastOp'.op \in FrameOps
                /\ frameCount' % detectionInterval = 0
      ]_vars

\* the fourth tick of a loop on synthetic detections, a track being
\* followed: the tick after a sampled one
C32_TickAfterSampled ==
    /\ lastOp.op = "frame"
    /\ frameCount = detectionInterval + 1
    /\ useSynthetic
    /\ tracks # <<>>
    /\ detecting = 0

----------------------------------------------------------------------------
(* Properties of the modes, stated under Spec *)

\* C33: setMode('counting') with no boundary in the registry is rejected:
\* the mode is unchanged, isRunning is unchanged, and no frame pass,
\* detector call or startCounting is started; consequently the application
\* is never in counting mode with an empty registry, also after a removal.
C33_CountingNeedsABoundary ==
    /\ [][lastOp'.op = "setModeRefused" =>
             /\ lines = <<>>
             /\ mode' = mode /\ isRunning' = isRunning
             /\ detecting' = detecting /\ rafPending' = rafPending
             /\ starting' = starting /\ frameCount' = frameCount
             /\ tracks' = tracks]_vars
    /\ [](mode = "counting" => lines # <<>>)

----------------------------------------------------------------------------
(* Properties of what a pass evaluates, stated under SpecLines *)

\* C34: crossing and containment are evaluated only for tracks matched to
\* a detection in the current frame that have at least two history
\* samples, on the segment between their last two centroids: every event
\* of a pass is about such a track and agrees with that segment, and a
\* track created in the frame or left unmatched produces no event and
\* keeps its dedup records and its area memberships; a pass that matches
\* no track changes no counter, dedup record or peopleInside.
C34_OnlyMatchedTracksAreEvaluated ==
    [][lastOp'.op = "pass" =>
        LET matchedIds == TrackIdsOf(lastOp'.pass.matched)
            others == (DOMAIN tracks \cup DOMAIN tracks') \ matchedIds
        IN /\ Range(lastOp'.pass.evaluated) \subseteq matchedIds
           /\ \A k \in 1..Len(lastOp'.emitted), i \in 1..Len(lines) :
                 LET e == lastOp'.emitted[k]
                     p == e.personId
                 IN lines[i].id = e.lineId
                    => /\ p \in matchedIds
                       /\ p \in DOMAIN tracks
                       /\ Len(tracks'[p].history) >= 2
                       /\ lines[i].type = "line"
                             => StepMeets(tracks', p, lines[i])
                       /\ lines[i].type = "area"
                             => (e.direction = "in")
                                   = AreaContains(lines[i],
                                                  LastCentroid(tracks'[p]))
           /\ \A p \in others :
                 /\ \A k \in 1..Len(lastOp'.emitted) :
                       lastOp'.emitted[k].personId # p
                 /\ \A i \in 1..Len(lines) :
                       LET key == CrossingKey(p, lines[i].id)
                       IN /\ (p \in lines'[i].peopleInside)
                                = (p \in lines[i].peopleInside)
                          /\ (key \in DOMAIN crossedTracks')
                                = (key \in DOMAIN crossedTracks)
                          /\ key \in DOMAIN crossedTracks
                                => crossedTracks'[key] = crossedTracks[key]
           /\ matchedIds = {}
                 => /\ lastOp'.emitted = <<>>
                    /\ lineCrossings' = lineCrossings
                    /\ crossedTracks' = crossedTracks
                    /\ counts' = counts
                    /\ lines' = lines
       ]_vars

\* a track is created inside an area that is already drawn, and the pass
\* neither counts it nor records it as inside
C34_CreatedInsideArea ==
    /\ lastOp.op = "pass"
    /\ Len(lastOp.pass.spawned) = 1
    /\ lastOp.emitted = <<>>
    /\ \E i \in 1..Len(lines) :
          /\ lines[i].type = "area"
          /\ lines[i].peopleInside = {}
          /\ lineCrossings[lines[i].id] = NoCrossings
          /\ AreaContains(lines[i],
                          LastCentroid(tracks[lastOp.pass.spawned[1].trackId]))

----------------------------------------------------------------------------
(* Properties of removal, stated under SpecRegistry *)

\* C35: removeLine(b) changes only state that belongs to b: for every
\* other boundary b' and every track t, the counters of b', the dedup
\* record of (t, b') and the peopleInside of b' are the same after the call
\* as before it, whatever the ids, ids of two digits such as 10 beside 1
\* included.
C35_RemovalTouchesOneBoundary ==
    [][lastOp'.op = "removeLine" =>
        \A i \in 1..Len(lines) :
           lines[i].id # lastOp'.arg
           => /\ \E j \in 1..Len(lines') : lines'[j] = lines[i]
              /\ lines[i].id \in DOMAIN lineCrossings'
              /\ lineCrossings'[lines[i].id] = lineCrossings[lines[i].id]
              /\ \A t \in DOMAIN tracks :
                    LET key == CrossingKey(t, lines[i].id)
                    IN key \in DOMAIN crossedTracks
                       => /\ key \in DOMAIN crossedTracks'
                          /\ crossedTracks'[key] = crossedTracks[key]
       ]_vars

\* C36: whenever isRunning is true the mode is 'counting': a startCounting
\* whose awaits (model load, session creation) complete after the user
\* has switched back to setup mode does not start the frame loop.
C36_RunningOnlyWhileCounting == isRunning => mode = "counting"

----------------------------------------------------------------------------
(* Properties of the areas' and the application's books, stated under      *)
(* SpecLines                                                               *)

\* C37: for every area, in every reachable state (after any sequence of
\* evaluations, resets and removals of other boundaries), in - out equals
\* the number of track ids in its peopleInside.
C37_OccupancyIsInMinusOut ==
    \A i \in 1..Len(lines) :
       lines[i].type = "area"
       => lineCrossings[lines[i].id]["in"] - lineCrossings[lines[i].id]["out"]
             = Cardinality(lines[i].peopleInside)

C39_TotalsAreSumsOverRegistry ==
    /\ counts.total = counts["in"] + counts.out
    /\ \A d \in {"in", "out"} :
          counts[d] = CountedFrom(lines, lineCrossings, d, 1)

====
